---------------------------- MODULE Spec2Model ----------------------------
(***************************************************************************)
(* TI-99/4a cassette tape tools: a model of the decoder                    *)
(* (src/ti99_4a_tape_decode.py: SignalProc -> BitProc -> DataProc), of the *)
(* encoder (src/ti99_4a_tape_encode.py) and of the BASIC lister            *)
(* (src/ti99_4a_list_basic.py).                                            *)
(*                                                                         *)
(* Conventions                                                             *)
(*  - Every Python object is a record whose fields carry the names of the  *)
(*    object's attributes (self.__buf is field buf).  A method is an       *)
(*    operator from the object (and the arguments) to the object after     *)
(*    the call, together with what the call returned or raised.            *)
(*  - Python strings built with chr() are sequences of numbers 0..255.     *)
(*  - The decoder is a Python 3 program (line 1, and bytes(str, encoding)  *)
(*    at line 337).  An exception nobody catches ends the process: the     *)
(*    variable exc names it and no handler runs afterwards.                *)
(***************************************************************************)
EXTENDS Integers, Sequences, FiniteSets, TLC

VARIABLES
    CONFIG,  \* the configuration profile the decoder runs with
    sp,      \* the SignalProc object
    bp,      \* the BitProc object
    dp,      \* the DataProc object; field files is what data_complete wrote
    calls,   \* the calls into DataProc made while the latest input was handled
    last,    \* the most recent call into DataProc: its name, its arguments,
             \* what it returned, and the DataProc object before the call
    exc,     \* the uncaught exception that ended the process, "" if none
    eof,     \* TRUE once process_eof has run (end of input)
    enc,     \* the encoder: its input, its loop counters and its output level
    wav,     \* the samples the encoder wrote that the decoder has not read yet
    chan,    \* the tape as BitProc sees it (SpecBit): what is played, and where;
             \* the output of the encoder (SpecEnc): the write_byte calls made;
             \* the signal BitProc is trained on (SpecTrain)
    lister   \* the BASIC lister (src/ti99_4a_list_basic.py): its image, the
             \* point it has reached and what it has printed

vars == <<CONFIG, sp, bp, dp, calls, last, exc, eof, enc, wav, chan, lister>>

(***************************************************************************)
(* Program constants                                                       *)
(***************************************************************************)
RECORD_LEN == 64
CHKSUM_LEN == 1

REQUEST_RESYNC == "SYNC"
NOTIFY_DONE == "DONE"
None == "None"

(***************************************************************************)
(* Python arithmetic on bytes                                              *)
(***************************************************************************)
RECURSIVE BitAnd(_, _)
\* a & b, for naturals
BitAnd(a, b) ==
    IF a = 0 \/ b = 0 THEN 0
    ELSE (IF a % 2 = 1 /\ b % 2 = 1 THEN 1 ELSE 0) + 2 * BitAnd(a \div 2, b \div 2)

RECURSIVE BitOr(_, _)
\* a | b, for naturals
BitOr(a, b) ==
    IF a = 0 THEN b
    ELSE IF b = 0 THEN a
    ELSE (IF a % 2 = 1 \/ b % 2 = 1 THEN 1 ELSE 0) + 2 * BitOr(a \div 2, b \div 2)

\* s[-n:], the last n elements of s (all of s when it is shorter)
Tail_n(s, n) ==
    IF Len(s) <= n THEN s ELSE SubSeq(s, Len(s) - n + 1, Len(s))

\* variant of s[0:-1] that keeps the last element (for sensitivity checks)
WholeBuf(s) == s

\* s[0:-1], all but the last element
ButLast(s) ==
    IF s = <<>> THEN <<>> ELSE SubSeq(s, 1, Len(s) - 1)

(***************************************************************************)
(* DataProc                                                                *)
(***************************************************************************)
\* variant of __clear_state that clears nothing (for sensitivity checks)
keep_state(d) == d

\* DataProc.__clear_state: every attribute it assigns; __file_idx, the files
\* written and the retained primary copy are left as they are.
DataProc_clear_state(d) ==
    [d EXCEPT !.buf = <<>>,
              !.buf_error_mask = <<>>,
              !.read_header = TRUE,
              !.rec_cnt = 0,
              !.rec_idx = 0,
              !.rec_primary = TRUE,
              !.rec_processed = FALSE,
              !.data_corrupt = FALSE,
              !.data = <<>>]

\* DataProc.__init__.  __rec_primary_buf and __rec_primary_error_mask do not
\* exist until _process_record assigns them; they are read only after that,
\* so the empty sequence stands for "not yet assigned".
DataProc_init ==
    [buf |-> <<>>, buf_error_mask |-> <<>>, read_header |-> TRUE,
     rec_cnt |-> 0, rec_idx |-> 0, rec_primary |-> TRUE,
     rec_processed |-> FALSE, data_corrupt |-> FALSE, data |-> <<>>,
     rec_primary_buf |-> <<>>, rec_primary_error_mask |-> <<>>,
     file_idx |-> 0, files |-> <<>>]

RECURSIVE chksum_loop_unmasked(_, _, _)
\* variant of the checksum loop without "& 0xff" (for sensitivity checks)
chksum_loop_unmasked(buf, lo, hi) ==
    IF lo > hi THEN 0
    ELSE IF lo = hi THEN buf[lo]
    ELSE chksum_loop_unmasked(buf, lo, (lo + hi) \div 2)
           + chksum_loop_unmasked(buf, (lo + hi) \div 2 + 1, hi)

RECURSIVE chksum_loop(_, _, _)
\* the loop of __verify_record over the elements lo .. hi of buf, entered
\* with chksum = 0: chksum = (chksum + ord(x)) & 0xff for each x in turn; on
\* naturals n & 0xff is n % 256.  Addition followed by "& 0xff" is
\* associative, so the additions are grouped in halves, which keeps the
\* evaluation shallow; every addition is still followed by the mask.
chksum_loop(buf, lo, hi) ==
    IF lo > hi THEN 0
    ELSE IF lo = hi THEN (0 + buf[lo]) % 256
    ELSE (chksum_loop(buf, lo, (lo + hi) \div 2)
            + chksum_loop(buf, (lo + hi) \div 2 + 1, hi)) % 256

\* DataProc.__verify_record
verify_record(buf) ==
    IF Len(buf) # RECORD_LEN + CHKSUM_LEN THEN FALSE
    ELSE IF chksum_loop(buf, 1, Len(buf) - 1) # buf[Len(buf)] THEN FALSE
    ELSE TRUE

\* DataProc.__recover_record: the two early returns, then the loop header
\* "for i in xrange(...)", where Python 3 raises NameError (xrange is not a
\* name of Python 3); the loop body and what follows it are never reached.
recover_record(d) ==
    IF d.rec_primary_buf = <<>> THEN [raised |-> "", ok |-> FALSE]
    ELSE IF Len(d.buf) # Len(d.rec_primary_buf) THEN [raised |-> "", ok |-> FALSE]
    ELSE [raised |-> "NameError", ok |-> FALSE]

\* variant of data_complete that writes a corrupt program too (for
\* sensitivity checks)
data_complete_always(d) ==
    [d EXCEPT !.files = Append(@, d.data),
              !.file_idx = @ + 1]

\* DataProc.data_complete: nothing for a corrupt program, else the payload is
\* written to the next output file.
data_complete(d) ==
    IF d.data_corrupt THEN d
    ELSE [d EXCEPT !.files = Append(@, d.data),
                   !.file_idx = @ + 1]

\* the end of _process_record (lines 275-284): the buffers are emptied, and
\* the program is completed when rec_idx has reached rec_cnt.
record_done(d) ==
    LET d1 == [d EXCEPT !.buf = <<>>, !.buf_error_mask = <<>>]
    IN  IF d1.rec_idx = d1.rec_cnt
        THEN [d |-> DataProc_clear_state(data_complete(d1)), ret |-> NOTIFY_DONE,
              raised |-> ""]
        ELSE [d |-> d1, ret |-> REQUEST_RESYNC, raised |-> ""]

\* the secondary branch of _process_record (lines 246-273); record_valid is
\* the outcome of the check of lines 223-234 and rr that of __recover_record
\* (not called, ok FALSE, unless the primary and this copy both failed)
secondary_record(d, record_valid, rr) ==
    IF rr.raised # ""
    THEN [d |-> d, ret |-> None, raised |-> rr.raised]
    ELSE record_done(
           [d EXCEPT
              !.data = IF ~d.rec_processed /\ (record_valid \/ rr.ok)
                       THEN @ \o ButLast(d.buf)
                       ELSE @,
              !.data_corrupt =
                  \/ @
                  \/ IF ~d.rec_processed
                     THEN ~record_valid /\ ~rr.ok
                     ELSE record_valid
                          /\ Tail_n(d.data, RECORD_LEN) # ButLast(d.buf),
              !.rec_primary = TRUE,
              !.rec_processed = FALSE,
              !.rec_idx = @ + 1])

\* _process_record from line 236 on; record_valid is the outcome of the check
\* of lines 223-234
checked_record(d, record_valid) ==
    IF d.rec_primary
    THEN record_done(
           IF record_valid
           THEN [d EXCEPT !.data = @ \o ButLast(d.buf),
                          !.rec_processed = TRUE,
                          !.rec_primary = FALSE]
           ELSE [d EXCEPT !.rec_primary_buf = d.buf,
                          !.rec_primary_error_mask = d.buf_error_mask,
                          !.rec_primary = FALSE])
    ELSE secondary_record(d, record_valid,
           IF ~d.rec_processed /\ ~record_valid
           THEN recover_record(d)
           ELSE [raised |-> "", ok |-> FALSE])

\* DataProc._process_record
_process_record(d) ==
    checked_record(d, d.buf # <<>> /\ verify_record(d.buf))

\* DataProc._process_header
_process_header(d) ==
    IF Len(d.buf) = 2
    THEN IF d.buf[1] # d.buf[2]
         THEN [d |-> DataProc_clear_state(d), ret |-> NOTIFY_DONE, raised |-> ""]
         ELSE [d |-> [d EXCEPT !.rec_cnt = d.buf[1],
                               !.rec_idx = 0,
                               !.read_header = FALSE,
                               !.buf = <<>>],
               ret |-> REQUEST_RESYNC, raised |-> ""]
    ELSE [d |-> d, ret |-> None, raised |-> ""]

\* DataProc.process_byte
DataProc_process_byte(d, val, bit_error_mask) ==
    LET d1 == [d EXCEPT !.buf = Append(@, val),
                        !.buf_error_mask = Append(@, bit_error_mask)]
    IN  IF d1.read_header THEN _process_header(d1)
        ELSE IF Len(d1.buf) = RECORD_LEN + CHKSUM_LEN THEN _process_record(d1)
        ELSE [d |-> d1, ret |-> None, raised |-> ""]

\* what resync_failed_cb makes of the answer r of _process_record
cb_answer(r) ==
    [d |-> r.d, ret |-> (r.ret = REQUEST_RESYNC), raised |-> r.raised]

\* variant of resync_failed_cb that does not ask whether a header is awaited
\* (for sensitivity checks)
resync_failed_cb_unasked(d) == cb_answer(_process_record(d))

\* DataProc.resync_failed_cb
DataProc_resync_failed_cb(d) ==
    IF ~d.read_header
    THEN cb_answer(_process_record(d))
    ELSE [d |-> d, ret |-> FALSE, raised |-> ""]

\* variant of process_eof that does not ask whether the primary copy of the
\* last record was accepted (for sensitivity checks)
process_eof_unasked(d) ==
    DataProc_clear_state(
        IF ~d.read_header /\ d.rec_idx + 1 = d.rec_cnt
        THEN data_complete(d)
        ELSE d)

\* DataProc.process_eof
DataProc_process_eof(d) ==
    DataProc_clear_state(
        IF ~d.read_header /\ d.rec_idx + 1 = d.rec_cnt /\ d.rec_processed
        THEN data_complete(d)
        ELSE d)

(***************************************************************************)
(* Configuration profiles and constants of the decoder                     *)
(*                                                                         *)
(* Fractions are pairs <<numerator, denominator>>: 0.24 is <<24, 100>>.    *)
(* symbol_len, the one fractional attribute of BitProc, is such a pair     *)
(* with a positive denominator, and every comparison and rounding the code *)
(* does on it in floating point is done here on the exact fraction.        *)
(***************************************************************************)
profiles ==
    [peak1 |-> [use_peak |-> TRUE, training_threshold |-> 400,
                min_bit_len |-> 10, hysteresis |-> <<50, 100>>,
                max_bit_diff |-> <<24, 100>>, range_decay |-> <<990, 1000>>,
                continues_resync |-> TRUE],
     edge1 |-> [use_peak |-> FALSE, training_threshold |-> 400,
                min_bit_len |-> 10, hysteresis |-> <<80, 100>>,
                max_bit_diff |-> <<24, 100>>, range_decay |-> <<995, 1000>>,
                continues_resync |-> TRUE]]
DEFAULT_PROFILE == "peak1"

MAX_INITIAL_SYNC_SYMBOLS == 800 * 8
MAX_RECORD_SYNC_SYMBOLS == 8 * 8
END_OF_SYNC_SYMBOLS == 8

\* abs(x)
Abs(x) == IF x < 0 THEN -x ELSE x

\* int(round(n / d)) for d > 0: Python 3 rounds a tie to the even neighbour
RoundHalfEven(n, d) ==
    LET q == n \div d
        r == n % d
    IN  IF 2 * r < d THEN q
        ELSE IF 2 * r > d THEN q + 1
        ELSE IF q % 2 = 0 THEN q ELSE q + 1

\* int(n / d) for d > 0: truncation towards zero
IntTrunc(n, d) == IF n >= 0 THEN n \div d ELSE -((-n) \div d)

(***************************************************************************)
(* BitProc                                                                 *)
(*                                                                         *)
(* A handler works on the triple [b, d, calls, raised]: the BitProc        *)
(* object, the DataProc object it calls, the calls it made into DataProc   *)
(* so far, and the exception that is propagating ("" for none).            *)
(***************************************************************************)
\* BitProc.__clear_state: __resync_start_idx and __resync_max_symbol are not
\* among the attributes it assigns.
BitProc_clear_state(b) ==
    [b EXCEPT !.last_edge_idx = 0,
              !.training = TRUE,
              !.training_matches = <<>>,
              !.training_start = 0,
              !.edge_cnt = 0,
              !.resync = FALSE,
              !.symbol_len = <<0, 1>>,
              !.edges_within_symbol = 0,
              !.byte = 0,
              !.bit_error_mask = 0,
              !.bit_cnt = 0]

\* BitProc.__init__.  __resync_start_idx and __resync_max_symbol do not exist
\* until _start_resync assigns them; they are read only in RESYNC, after
\* that, so 0 stands for "not yet assigned".
BitProc_init ==
    [last_edge_idx |-> 0, training |-> TRUE, training_matches |-> <<>>,
     training_start |-> 0, edge_cnt |-> 0, resync |-> FALSE,
     symbol_len |-> <<0, 1>>, edges_within_symbol |-> 0, byte |-> 0,
     bit_error_mask |-> 0, bit_cnt |-> 0,
     resync_start_idx |-> 0, resync_max_symbol |-> 0]

\* BitProc._start_resync
_start_resync(b, frame_idx, max_symbols) ==
    [b EXCEPT !.resync = TRUE,
              !.resync_start_idx = frame_idx,
              !.resync_max_symbol = max_symbols + END_OF_SYNC_SYMBOLS + 8,
              !.byte = 0,
              !.edges_within_symbol = 0]

\* abs(frame_idx - expected_idx) < symbol_len * CONFIG['max_bit_diff']
AtBoundary(b, frame_idx, expected_idx) ==
    Abs(frame_idx - expected_idx) * b.symbol_len[2] * CONFIG.max_bit_diff[2]
        < b.symbol_len[1] * CONFIG.max_bit_diff[1]

\* int(round(training_start + (edge_cnt + 1) * symbol_len))
expected_idx_of(b) ==
    RoundHalfEven(b.training_start * b.symbol_len[2]
                     + (b.edge_cnt + 1) * b.symbol_len[1],
                  b.symbol_len[2])

\* the bit that the edges seen within the symbol spell
bit_of_edges(b) == IF b.edges_within_symbol % 2 = 1 THEN 1 ELSE 0

\* variant of the end of training that leaves out the division of line 455
\* (for sensitivity checks)
training_undivided(st, frame_idx, level_len) ==
    LET b == st.b
        matched ==
            Abs(level_len * b.symbol_len[2] - b.symbol_len[1])
                   * CONFIG.max_bit_diff[2]
                < b.symbol_len[1] * CONFIG.max_bit_diff[1]
        b1 == IF matched
              THEN [b EXCEPT !.training_matches = Append(@, frame_idx)]
              ELSE [b EXCEPT !.symbol_len = <<level_len, 1>>,
                             !.training_start = frame_idx,
                             !.training_matches = <<>>]
        complete ==
            /\ Len(b1.training_matches) = CONFIG.training_threshold
            /\ b1.symbol_len[1] > CONFIG.min_bit_len * b1.symbol_len[2]
        b2 == [b1 EXCEPT
                 !.symbol_len =
                     <<b1.training_matches[Len(b1.training_matches)]
                          - b1.training_start,
                       1>>,
                 !.training_start =
                     IF CONFIG.continues_resync THEN frame_idx ELSE @,
                 !.edge_cnt = IF CONFIG.continues_resync THEN 0 ELSE @,
                 !.training_matches = <<>>,
                 !.training = FALSE,
                 !.edges_within_symbol = 0]
    IN  IF complete
        THEN [st EXCEPT !.b = _start_resync(b2, frame_idx,
                  MAX_INITIAL_SYNC_SYMBOLS - CONFIG.training_threshold)]
        ELSE [st EXCEPT !.b = b1]

\* variant of training that leaves out the test of line 449 against
\* min_bit_len (for sensitivity checks)
training_any_len(st, frame_idx, level_len) ==
    LET b == st.b
        matched ==
            Abs(level_len * b.symbol_len[2] - b.symbol_len[1])
                   * CONFIG.max_bit_diff[2]
                < b.symbol_len[1] * CONFIG.max_bit_diff[1]
        b1 == IF matched
              THEN [b EXCEPT !.training_matches = Append(@, frame_idx)]
              ELSE [b EXCEPT !.symbol_len = <<level_len, 1>>,
                             !.training_start = frame_idx,
                             !.training_matches = <<>>]
        complete == Len(b1.training_matches) = CONFIG.training_threshold
        b2 == [b1 EXCEPT
                 !.symbol_len =
                     <<b1.training_matches[Len(b1.training_matches)]
                          - b1.training_start,
                       Len(b1.training_matches)>>,
                 !.training_start =
                     IF CONFIG.continues_resync THEN frame_idx ELSE @,
                 !.edge_cnt = IF CONFIG.continues_resync THEN 0 ELSE @,
                 !.training_matches = <<>>,
                 !.training = FALSE,
                 !.edges_within_symbol = 0]
    IN  IF complete
        THEN [st EXCEPT !.b = _start_resync(b2, frame_idx,
                  MAX_INITIAL_SYNC_SYMBOLS - CONFIG.training_threshold)]
        ELSE [st EXCEPT !.b = b1]

\* BitProc._process_symbol_training
_process_symbol_training(st, frame_idx, level_len) ==
    LET b == st.b
        matched ==
            Abs(level_len * b.symbol_len[2] - b.symbol_len[1])
                   * CONFIG.max_bit_diff[2]
                < b.symbol_len[1] * CONFIG.max_bit_diff[1]
        b1 == IF matched
              THEN [b EXCEPT !.training_matches = Append(@, frame_idx)]
              ELSE [b EXCEPT !.symbol_len = <<level_len, 1>>,
                             !.training_start = frame_idx,
                             !.training_matches = <<>>]
        complete ==
            /\ Len(b1.training_matches) = CONFIG.training_threshold
            /\ b1.symbol_len[1] > CONFIG.min_bit_len * b1.symbol_len[2]
        b2 == [b1 EXCEPT
                 !.symbol_len =
                     <<b1.training_matches[Len(b1.training_matches)]
                          - b1.training_start,
                       Len(b1.training_matches)>>,
                 !.training_start =
                     IF CONFIG.continues_resync THEN frame_idx ELSE @,
                 !.edge_cnt = IF CONFIG.continues_resync THEN 0 ELSE @,
                 !.training_matches = <<>>,
                 !.training = FALSE,
                 !.edges_within_symbol = 0]
    IN  IF complete
        THEN [st EXCEPT !.b = _start_resync(b2, frame_idx,
                  MAX_INITIAL_SYNC_SYMBOLS - CONFIG.training_threshold)]
        ELSE [st EXCEPT !.b = b1]

\* variant of resync_symbol that takes a 0xFF before resync_start_idx as
\* well (for sensitivity checks)
resync_symbol_any_mark(b, frame_idx, level_len) ==
    LET expected_idx == expected_idx_of(b)
        byte1 == (b.byte * 2 + bit_of_edges(b)) % 256
    IN  IF AtBoundary(b, frame_idx, expected_idx)
        THEN [b EXCEPT
                !.byte = byte1,
                !.resync = IF byte1 = 255 THEN FALSE ELSE @,
                !.training_start =
                    IF CONFIG.continues_resync THEN frame_idx ELSE @,
                !.edge_cnt = IF CONFIG.continues_resync THEN 0 ELSE @ + 1,
                !.edges_within_symbol = 0]
        ELSE IF frame_idx < expected_idx
        THEN [b EXCEPT !.edges_within_symbol = @ + 1]
        ELSE [b EXCEPT
                !.byte = 0,
                !.edges_within_symbol = 0,
                !.training_start =
                    IF CONFIG.continues_resync THEN frame_idx ELSE @,
                !.edge_cnt = IF CONFIG.continues_resync THEN 0 ELSE @ + 1]

\* _process_symbol_resync once the deadline has not passed (lines 498-560)
resync_symbol(b, frame_idx, level_len) ==
    LET expected_idx == expected_idx_of(b)
        byte1 == (b.byte * 2 + bit_of_edges(b)) % 256
        missed_symbol_cnt ==
            RoundHalfEven(
                level_len * b.symbol_len[2] * CONFIG.max_bit_diff[2]
                    + b.symbol_len[1] * CONFIG.max_bit_diff[1],
                b.symbol_len[1] * CONFIG.max_bit_diff[2])
    IN  IF AtBoundary(b, frame_idx, expected_idx)
        THEN [b EXCEPT
                !.byte = byte1,
                !.resync = IF b.resync_start_idx > frame_idx THEN @
                           ELSE IF byte1 = 255 THEN FALSE ELSE @,
                !.training_start =
                    IF CONFIG.continues_resync THEN frame_idx ELSE @,
                !.edge_cnt = IF CONFIG.continues_resync THEN 0 ELSE @ + 1,
                !.edges_within_symbol = 0]
        ELSE IF frame_idx < expected_idx
        THEN [b EXCEPT !.edges_within_symbol = @ + 1]
        ELSE [b EXCEPT
                !.byte = 0,
                !.edges_within_symbol = 0,
                !.training_start =
                    IF CONFIG.continues_resync THEN frame_idx ELSE @,
                !.edge_cnt = IF CONFIG.continues_resync THEN 0
                             ELSE @ + missed_symbol_cnt]

RECURSIVE _process_symbol_resync(_, _, _)

\* variant of lines 482-496 without the 8 symbol periods of line 490 (for
\* sensitivity checks)
resync_failed_short_skip(st, frame_idx, level_len, r) ==
    LET b == st.b
        called == Append(st.calls,
                     [op |-> "resync_failed_cb", val |-> 0, mask |-> 0,
                      ret |-> IF r.ret THEN "True" ELSE "False",
                      before |-> st.d])
        skipped ==
            [b EXCEPT !.resync_start_idx =
                @ + IntTrunc((MAX_RECORD_SYNC_SYMBOLS + END_OF_SYNC_SYMBOLS
                                + (RECORD_LEN + CHKSUM_LEN) * 8)
                               * b.symbol_len[1], b.symbol_len[2])]
    IN  IF r.raised # ""
        THEN [st EXCEPT !.d = r.d, !.calls = called, !.raised = r.raised]
        ELSE IF r.ret
        THEN IF skipped.resync_start_idx < frame_idx
             THEN _process_symbol_resync(
                     [st EXCEPT !.b = skipped, !.d = r.d, !.calls = called],
                     frame_idx, level_len)
             ELSE [st EXCEPT !.b = skipped, !.d = r.d, !.calls = called]
        ELSE [st EXCEPT !.b = BitProc_clear_state(b), !.d = r.d,
                        !.calls = called]

\* lines 482-496 of _process_symbol_resync: the deadline has passed and r is
\* what resync_failed_cb answered
resync_failed(st, frame_idx, level_len, r) ==
    LET b == st.b
        called == Append(st.calls,
                     [op |-> "resync_failed_cb", val |-> 0, mask |-> 0,
                      ret |-> IF r.ret THEN "True" ELSE "False",
                      before |-> st.d])
        skipped ==
            [b EXCEPT !.resync_start_idx =
                @ + IntTrunc((MAX_RECORD_SYNC_SYMBOLS + END_OF_SYNC_SYMBOLS
                                + (RECORD_LEN + CHKSUM_LEN) * 8)
                               * b.symbol_len[1], b.symbol_len[2])
                  + IntTrunc(8 * b.symbol_len[1], b.symbol_len[2])]
    IN  IF r.raised # ""
        THEN [st EXCEPT !.d = r.d, !.calls = called, !.raised = r.raised]
        ELSE IF r.ret
        THEN IF skipped.resync_start_idx < frame_idx
             THEN _process_symbol_resync(
                     [st EXCEPT !.b = skipped, !.d = r.d, !.calls = called],
                     frame_idx, level_len)
             ELSE [st EXCEPT !.b = skipped, !.d = r.d, !.calls = called]
        ELSE [st EXCEPT !.b = BitProc_clear_state(b), !.d = r.d,
                        !.calls = called]

\* variant of _process_symbol_resync that takes the length of each level
\* handled before the deadline as the new symbol length (for sensitivity
\* checks)
symbol_resync_slewed(st, frame_idx, level_len) ==
    IF st.b.resync_start_idx * st.b.symbol_len[2]
          + st.b.resync_max_symbol * st.b.symbol_len[1]
        < frame_idx * st.b.symbol_len[2]
    THEN resync_failed(st, frame_idx, level_len,
                       DataProc_resync_failed_cb(st.d))
    ELSE [st EXCEPT !.b = [resync_symbol(st.b, frame_idx, level_len)
                             EXCEPT !.symbol_len = <<level_len, 1>>]]

\* BitProc._process_symbol_resync
_process_symbol_resync(st, frame_idx, level_len) ==
    IF st.b.resync_start_idx * st.b.symbol_len[2]
          + st.b.resync_max_symbol * st.b.symbol_len[1]
        < frame_idx * st.b.symbol_len[2]
    THEN resync_failed(st, frame_idx, level_len,
                       DataProc_resync_failed_cb(st.d))
    ELSE [st EXCEPT !.b = resync_symbol(st.b, frame_idx, level_len)]

\* lines 615-629 of _process_symbol_active: the eighth bit is in, b1 is the
\* BitProc object holding the byte, and r is what process_byte answered
byte_handed(st, b1, frame_idx, recurse, r) ==
    LET called == Append(st.calls,
                     [op |-> "process_byte", val |-> b1.byte,
                      mask |-> b1.bit_error_mask, ret |-> r.ret,
                      before |-> st.d])
    IN  IF r.raised # ""
        THEN [b |-> b1, d |-> r.d, calls |-> called, raised |-> r.raised,
              recurse |-> FALSE]
        ELSE [b |-> [(IF r.ret = REQUEST_RESYNC
                      THEN _start_resync(b1, frame_idx, MAX_RECORD_SYNC_SYMBOLS)
                      ELSE IF r.ret = NOTIFY_DONE THEN BitProc_clear_state(b1)
                      ELSE b1) EXCEPT !.bit_cnt = 0, !.byte = 0],
              d |-> r.d, calls |-> called, raised |-> "",
              recurse |-> recurse /\ r.ret # NOTIFY_DONE]

\* lines 606-617 of _process_symbol_active: b1 is the BitProc object after
\* the bit was shifted in; every eighth bit the byte goes to DataProc
bit_shifted(st, b1, frame_idx, recurse) ==
    IF b1.bit_cnt = 8
    THEN byte_handed(st, b1, frame_idx, recurse,
                     DataProc_process_byte(st.d, b1.byte, b1.bit_error_mask))
    ELSE [b |-> b1, d |-> st.d, calls |-> st.calls, raised |-> "",
          recurse |-> recurse]

\* lines 606-629 of _process_symbol_active.  The result carries recurse,
\* which NOTIFY_DONE clears.
shift_bit(st, frame_idx, bit, bit_error, recurse) ==
    bit_shifted(st,
                [st.b EXCEPT
                   !.edges_within_symbol = 0,
                   !.edge_cnt = @ + 1,
                   !.byte = (@ * 2 + bit) % 256,
                   !.bit_error_mask = (@ * 2 + bit_error) % 256,
                   !.bit_cnt = @ + 1],
                frame_idx, recurse)

RECURSIVE _process_symbol_active(_, _, _)

\* variant of symbol_done that does not hand the rest of the level to
\* _process_symbol_active again: a gap takes one bit (for sensitivity checks)
symbol_done_once(s1, symbol_len, frame_idx, level_len, expected_idx) ==
    IF s1.raised # ""
    THEN [b |-> s1.b, d |-> s1.d, calls |-> s1.calls, raised |-> s1.raised]
    ELSE [b |-> IF CONFIG.continues_resync
                THEN [s1.b EXCEPT !.training_start = frame_idx, !.edge_cnt = 0]
                ELSE s1.b,
          d |-> s1.d, calls |-> s1.calls, raised |-> ""]

\* lines 631-641 of _process_symbol_active: s1 is what shift_bit left, and
\* symbol_len the symbol length the call began with
symbol_done(s1, symbol_len, frame_idx, level_len, expected_idx) ==
    LET s2 == [b |-> IF CONFIG.continues_resync
                     THEN [s1.b EXCEPT
                             !.training_start =
                                 IF s1.recurse THEN expected_idx ELSE frame_idx,
                             !.edge_cnt = 0]
                     ELSE s1.b,
               d |-> s1.d, calls |-> s1.calls, raised |-> ""]
    IN  IF s1.raised # ""
        THEN [b |-> s1.b, d |-> s1.d, calls |-> s1.calls, raised |-> s1.raised]
        ELSE IF s1.recurse
        THEN _process_symbol_active(s2, frame_idx,
                 RoundHalfEven(level_len * symbol_len[2] - symbol_len[1],
                               symbol_len[2]))
        ELSE s2

\* _process_symbol_active from line 566 on, expected_idx computed
symbol_active(st, frame_idx, level_len, expected_idx) ==
    LET at_boundary == AtBoundary(st.b, frame_idx, expected_idx)
    IN  IF ~at_boundary /\ frame_idx < expected_idx
        THEN [st EXCEPT !.b.edges_within_symbol = @ + 1]
        ELSE symbol_done(
                 shift_bit(st, frame_idx, bit_of_edges(st.b),
                           IF at_boundary THEN 0 ELSE 1, ~at_boundary),
                 st.b.symbol_len, frame_idx, level_len, expected_idx)

\* BitProc._process_symbol_active
_process_symbol_active(st, frame_idx, level_len) ==
    symbol_active(st, frame_idx, level_len, expected_idx_of(st.b))

\* BitProc.process_edge.  With use_peak off, "frame_idx = frame_idx" reads a
\* local that was never assigned: UnboundLocalError.
BitProc_process_edge(st, edge_idx, peak_idx, new_level) ==
    LET b == st.b
        frame_idx ==
            IF (edge_idx - peak_idx) * b.symbol_len[2] > b.symbol_len[1] * 8
            THEN edge_idx ELSE peak_idx
        level_len == frame_idx - b.last_edge_idx
        st1 == [st EXCEPT !.b.last_edge_idx = frame_idx]
    IN  IF ~CONFIG.use_peak
        THEN [st EXCEPT !.raised = "UnboundLocalError"]
        ELSE IF b.training THEN _process_symbol_training(st1, frame_idx, level_len)
        ELSE IF b.resync THEN _process_symbol_resync(st1, frame_idx, level_len)
        ELSE _process_symbol_active(st1, frame_idx, level_len)

\* BitProc.process_eof
BitProc_process_eof(st, frame_idx) ==
    [st EXCEPT !.d = DataProc_process_eof(st.d)]

(***************************************************************************)
(* SignalProc                                                              *)
(*                                                                         *)
(* range_max and range_min, floating point in the code, are kept in        *)
(* thousandths (fixed point, rounded down); samples are whole numbers.     *)
(***************************************************************************)
\* a whole number in thousandths
Fix(x) == x * 1000

\* x * f for a fraction f = <<n, d>>, rounded down, without leaving 32 bits
MulFrac(x, f) == (x \div f[2]) * f[1] + ((x % f[2]) * f[1]) \div f[2]

\* SignalProc.__init__
SignalProc_init ==
    [frame_idx |-> 0, range_max |-> Fix(-65536), range_min |-> Fix(65536),
     idle |-> TRUE, level |-> 0, peak |-> 0, peak_idx |-> 0]

\* lines 712-731 of process_sample for a sample with an edge: s1 is the
\* SignalProc object after lines 688-709, r what process_edge left
edge_reported(s1, r) ==
    IF r.raised # ""
    THEN [s |-> s1, b |-> r.b, d |-> r.d, calls |-> r.calls,
          raised |-> r.raised]
    ELSE [s |-> [s1 EXCEPT !.frame_idx = @ + 1], b |-> r.b, d |-> r.d,
          calls |-> r.calls, raised |-> ""]

\* lines 698-731 of process_sample: range_max and range_min are the values
\* lines 688-693 computed
sample_ranged(st, sample, range_max, range_min) ==
    LET s == st.s
        half_range == (range_max - range_min) \div 2
        threshold == range_min + half_range
        new_peak == \/ s.level = 1 /\ sample > s.peak
                    \/ s.level = 0 /\ sample < s.peak
        rising == s.level = 0
                  /\ Fix(sample) > threshold
                                     + MulFrac(half_range, CONFIG.hysteresis)
        falling == s.level = 1
                   /\ Fix(sample) < threshold
                                      - MulFrac(half_range, CONFIG.hysteresis)
        s1 == [s EXCEPT !.range_max = range_max, !.range_min = range_min,
                        !.peak = IF new_peak THEN sample ELSE @,
                        !.peak_idx = IF new_peak THEN s.frame_idx ELSE @,
                        !.level = IF rising THEN 1
                                  ELSE IF falling THEN 0 ELSE @]
    IN  IF rising \/ falling
        THEN edge_reported(s1,
                 BitProc_process_edge(
                     [b |-> st.b, d |-> st.d, calls |-> st.calls,
                      raised |-> ""],
                     s.frame_idx, s1.peak_idx, s1.level))
        ELSE [st EXCEPT !.s = [s1 EXCEPT !.frame_idx = @ + 1]]

\* the larger, the smaller of two numbers
Max(x, y) == IF x > y THEN x ELSE y
Min(x, y) == IF x < y THEN x ELSE y

\* SignalProc.process_sample; st is [s, b, d, calls, raised]
SignalProc_process_sample(st, sample) ==
    sample_ranged(st, sample,
        Max(Fix(sample), MulFrac(st.s.range_max, CONFIG.range_decay)),
        Min(Fix(sample), MulFrac(st.s.range_min, CONFIG.range_decay)))

\* what process_eof of SignalProc leaves, r being what BitProc left
eof_reported(st, r) == [st EXCEPT !.b = r.b, !.d = r.d, !.calls = r.calls]

\* SignalProc.process_eof
SignalProc_process_eof(st) ==
    eof_reported(st,
        BitProc_process_eof(
            [b |-> st.b, d |-> st.d, calls |-> st.calls, raised |-> ""],
            st.s.frame_idx))

RECURSIVE feed_samples(_, _, _, _)
\* the decoder's loop over the frames it read (lines 828-837):
\* sig_proc.process_sample(sample) for frames[lo], ..., frames[hi], as long
\* as no exception is raised.  The loop over lo .. hi is the loop over the
\* first half of the range followed by the loop over the second half.
feed_samples(st, frames, lo, hi) ==
    IF st.raised # "" \/ lo > hi THEN st
    ELSE IF lo = hi THEN SignalProc_process_sample(st, frames[lo])
    ELSE feed_samples(feed_samples(st, frames, lo, (lo + hi) \div 2),
                      frames, (lo + hi) \div 2 + 1, hi)

(***************************************************************************)
(* The encoder (a Python 2 program: xrange, str input data)                *)
(***************************************************************************)
INITIAL_SYNC_LEN == 768
SYMBOL_LEN == 32
MAX_LEVEL == 32767

\* variant of the record limit that lets 256 records pass (for sensitivity
\* checks)
encoder_start_limit_256(input) ==
    LET padding == 64 - (Len(input) % 64)
        data == IF padding # 64
                THEN input \o [x \in 1..padding |-> 128]
                ELSE input
        nrecords == Len(data) \div 64
    IN  [input |-> input, data |-> data, nrecords |-> nrecords,
         phase |-> IF nrecords > 256 THEN "exit" ELSE "sync",
         i |-> 0, z |-> 0, n |-> 0, j |-> 0, b |-> 0, chksum |-> 0,
         level |-> MAX_LEVEL, kind |-> "none", rec |-> 0]

\* variant of the padding without the test of line 95 (for sensitivity
\* checks)
encoder_start_pad_always(input) ==
    LET padding == 64 - (Len(input) % 64)
        data == input \o [x \in 1..padding |-> 128]
        nrecords == Len(data) \div 64
    IN  [input |-> input, data |-> data, nrecords |-> nrecords,
         phase |-> IF nrecords > 255 THEN "exit" ELSE "sync",
         i |-> 0, z |-> 0, n |-> 0, j |-> 0, b |-> 0, chksum |-> 0,
         level |-> MAX_LEVEL, kind |-> "none", rec |-> 0]

\* lines 91-101: the input is padded and counted; more than 255 records end
\* the program before anything is written
encoder_start(input) ==
    LET padding == 64 - (Len(input) % 64)
        data == IF padding # 64
                THEN input \o [x \in 1..padding |-> 128]
                ELSE input
        nrecords == Len(data) \div 64
    IN  [input |-> input, data |-> data, nrecords |-> nrecords,
         phase |-> IF nrecords > 255 THEN "exit" ELSE "sync",
         i |-> 0, z |-> 0, n |-> 0, j |-> 0, b |-> 0, chksum |-> 0,
         level |-> MAX_LEVEL, kind |-> "none", rec |-> 0]

\* variant of the loops that writes each record once (for sensitivity
\* checks)
next_byte_one_copy(e) ==
    IF e.phase = "sync"
    THEN [e EXCEPT !.b = 0,
                   !.kind = "sync",
                   !.i = IF e.i + 1 = INITIAL_SYNC_LEN THEN 0 ELSE e.i + 1,
                   !.phase = IF e.i + 1 = INITIAL_SYNC_LEN THEN "header" ELSE @]
    ELSE IF e.phase = "header"
    THEN [e EXCEPT !.b = IF e.n = 0 THEN 255 ELSE e.nrecords,
                   !.kind = IF e.n = 0 THEN "mark" ELSE "nrecords",
                   !.n = IF e.n = 2 THEN 0 ELSE e.n + 1,
                   !.phase = IF e.n = 2
                             THEN IF e.nrecords > 0 THEN "record" ELSE "done"
                             ELSE @]
    ELSE LET byte == IF e.n < 8 THEN 0
                     ELSE IF e.n = 8 THEN 255
                     ELSE IF e.n < 9 + 64 THEN e.data[e.i * 64 + (e.n - 9) + 1]
                     ELSE e.chksum
             last_of_copy == e.n = 9 + 64
         IN  [e EXCEPT
                !.b = byte,
                !.kind = IF e.n < 8 THEN "sync"
                         ELSE IF e.n = 8 THEN "mark"
                         ELSE IF e.n < 9 + 64 THEN "data"
                         ELSE "chksum",
                !.rec = e.i,
                !.chksum = IF e.n = 8 THEN 0
                           ELSE IF e.n > 8 /\ e.n < 9 + 64 THEN @ + byte
                           ELSE @,
                !.n = IF last_of_copy THEN 0 ELSE e.n + 1,
                !.i = IF last_of_copy THEN e.i + 1 ELSE @,
                !.phase = IF last_of_copy /\ e.i + 1 = e.nrecords
                          THEN "done" ELSE @]

\* the loops of lines 125-150, one write_byte call at a time: the byte the
\* next call is given goes to b, and the loop counters move to the call after
\* it.  phase names the loop, i and z are its counters, n counts the calls
\* within one record copy (or within the header).  kind and rec note what
\* the call is for: which write_byte call of the source it is, and of which
\* record.
next_byte(e) ==
    IF e.phase = "sync"
    THEN [e EXCEPT !.b = 0,
                   !.kind = "sync",
                   !.i = IF e.i + 1 = INITIAL_SYNC_LEN THEN 0 ELSE e.i + 1,
                   !.phase = IF e.i + 1 = INITIAL_SYNC_LEN THEN "header" ELSE @]
    ELSE IF e.phase = "header"
    THEN [e EXCEPT !.b = IF e.n = 0 THEN 255 ELSE e.nrecords,
                   !.kind = IF e.n = 0 THEN "mark" ELSE "nrecords",
                   !.n = IF e.n = 2 THEN 0 ELSE e.n + 1,
                   !.phase = IF e.n = 2
                             THEN IF e.nrecords > 0 THEN "record" ELSE "done"
                             ELSE @]
    ELSE LET byte == IF e.n < 8 THEN 0
                     ELSE IF e.n = 8 THEN 255
                     ELSE IF e.n < 9 + 64 THEN e.data[e.i * 64 + (e.n - 9) + 1]
                     ELSE e.chksum
             last_of_copy == e.n = 9 + 64
             last_copy == last_of_copy /\ e.z = 1
         IN  [e EXCEPT
                !.b = byte,
                !.kind = IF e.n < 8 THEN "sync"
                         ELSE IF e.n = 8 THEN "mark"
                         ELSE IF e.n < 9 + 64 THEN "data"
                         ELSE "chksum",
                !.rec = e.i,
                !.chksum = IF e.n = 8 THEN 0
                           ELSE IF e.n > 8 /\ e.n < 9 + 64 THEN @ + byte
                           ELSE @,
                !.n = IF last_of_copy THEN 0 ELSE e.n + 1,
                !.z = IF last_of_copy THEN (IF e.z = 1 THEN 0 ELSE 1) ELSE @,
                !.i = IF last_copy THEN e.i + 1 ELSE @,
                !.phase = IF last_copy /\ e.i + 1 = e.nrecords THEN "done" ELSE @]

\* variant of the test of b that compares instead of masking (for
\* sensitivity checks)
top_bit_cmp(b) == IF b >= 128 THEN 1 ELSE 0

\* b & 0x80, as a bit
top_bit(b) == (b \div 128) % 2

\* variant of the pass that does not flip the level at the start of the
\* symbol (for sensitivity checks)
write_bit_late_flip(e) ==
    LET level1 == e.level
        level2 == IF top_bit(e.b) = 1 THEN 0 - level1 ELSE level1
    IN  [e |-> [e EXCEPT !.level = level2, !.b = e.b * 2,
                         !.j = (e.j + 1) % 8],
         samples |-> [x \in 1..(SYMBOL_LEN \div 2) |-> level1]
                        \o [x \in 1..(SYMBOL_LEN \div 2) |-> level2]]

\* one pass of the loop of write_byte: the level flips, SYMBOL_LEN / 2 samples
\* go out, the level flips again for a 1, SYMBOL_LEN / 2 more samples go out,
\* and b moves left.  The result is the encoder and the samples it wrote.
write_bit(e) ==
    LET level1 == 0 - e.level
        level2 == IF top_bit(e.b) = 1 THEN 0 - level1 ELSE level1
    IN  [e |-> [e EXCEPT !.level = level2, !.b = e.b * 2,
                         !.j = (e.j + 1) % 8],
         samples |-> [x \in 1..(SYMBOL_LEN \div 2) |-> level1]
                        \o [x \in 1..(SYMBOL_LEN \div 2) |-> level2]]

(***************************************************************************)
(* The BASIC lister (src/ti99_4a_list_basic.py, a Python 3 program: it     *)
(* indexes bytes to get numbers and calls bytes.decode)                    *)
(*                                                                         *)
(* The image is a sequence of numbers 0..255; offsets count from 0 as in   *)
(* the source.  Text is a sequence of character codes.  exit(1) ends the   *)
(* program at once, and so does an exception nobody catches.               *)
(***************************************************************************)
HDR_LEN == 8

\* the ^ operator
RECURSIVE BitXor(_, _)
BitXor(a, b) ==
    IF a = 0 THEN b
    ELSE IF b = 0 THEN a
    ELSE ((a + b) % 2) + 2 * BitXor(a \div 2, b \div 2)

\* data[i]: a negative index counts from the end
At(data, i) == IF i >= 0 THEN data[i + 1] ELSE data[Len(data) + i + 1]

\* an index or a bound of a slice, brought into 0 .. len
SliceBound(len, i) ==
    IF i < 0 THEN (IF len + i < 0 THEN 0 ELSE len + i)
    ELSE IF i > len THEN len ELSE i

\* data[a:b]
Slice(data, a, b) ==
    SubSeq(data, SliceBound(Len(data), a) + 1, SliceBound(Len(data), b))

\* struct.unpack_from('>H', data, offset)
Word(data, offset) == At(data, offset) * 256 + At(data, offset + 1)

\* struct.unpack_from('>h', data, offset)
SignedWord(data, offset) ==
    IF Word(data, offset) >= 32768 THEN Word(data, offset) - 65536
    ELSE Word(data, offset)

\* the decimal digits of a number n >= 0
RECURSIVE Digits(_)
Digits(n) ==
    IF n < 10 THEN <<48 + n>> ELSE Digits(n \div 10) \o <<48 + (n % 10)>>

\* str(n)
Str(n) == IF n < 0 THEN <<45>> \o Digits(0 - n) ELSE Digits(n)

\* a variant of Format5 that sets the number without padding
Format5_unpadded(n) == Str(n)

\* "{:5}".format(n): a number is set to the right of 5 columns
Format5(n) ==
    IF Len(Str(n)) >= 5 THEN Str(n)
    ELSE [x \in 1..(5 - Len(Str(n))) |-> 32] \o Str(n)

\* parse_header: exit(1) for data shorter than the header, None for a
\* checksum failure (field none), and else the header
parse_header(data) ==
    IF Len(data) < HDR_LEN THEN [exit |-> TRUE, header |-> [none |-> TRUE]]
    ELSE IF BitXor(Word(data, 2), Word(data, 4)) # Word(data, 0) % 32768
    THEN [exit |-> FALSE, header |-> [none |-> TRUE]]
    ELSE [exit |-> FALSE,
          header |-> [none |-> FALSE,
                      chkword |-> Word(data, 0),
                      line_table_start |-> Word(data, 2),
                      line_table_end |-> Word(data, 4),
                      memory_end |-> Word(data, 6)]]

\* the offset parse_line_table computes for entry i (lines 198-205): the
\* offset of the length byte of the line
entry_addr(data, header, lt_len, i) ==
    Word(data, HDR_LEN + lt_len - 4 - i + 2)
      - (header.line_table_start + 1) + HDR_LEN + lt_len - 1

\* the line number of entry i
entry_line(data, lt_len, i) == Word(data, HDR_LEN + lt_len - 4 - i)

\* the dictionary lt the loop of lines 197-205 leaves: for a line number,
\* the offset of the last entry (the largest i) with that number
line_table(data, header, lt_len) ==
    LET idx == { i \in 0..(lt_len - 1) : i % 4 = 0 }
        nos == { entry_line(data, lt_len, i) : i \in idx }
        last_i(no) == CHOOSE i \in idx :
                         /\ entry_line(data, lt_len, i) = no
                         /\ \A k \in idx :
                               entry_line(data, lt_len, k) = no => k <= i
    IN  [no \in nos |-> entry_addr(data, header, lt_len, last_i(no))]

\* parse_line_table, given a header that is not None
parse_line_table(data, header) ==
    LET lt_len == header.line_table_start + 1 - header.line_table_end
    IN  IF lt_len + HDR_LEN > Len(data) THEN [exit |-> TRUE, lt |-> <<>>]
        ELSE IF lt_len % 4 # 0 THEN [exit |-> TRUE, lt |-> <<>>]
        ELSE [exit |-> FALSE, lt |-> line_table(data, header, lt_len)]

\* the text of a token of the chain of lines 230-481 that stands for a fixed
\* text; the empty text for every other byte
token_text(token) ==
    CASE token = 129 -> <<69, 76, 83, 69, 32>>    \* 0x81 'ELSE '
      [] token = 130 -> <<32, 58, 58, 32>>    \* 0x82 ' :: '
      [] token = 131 -> <<32, 33, 32>>    \* 0x83 ' ! '
      [] token = 132 -> <<73, 70, 32>>    \* 0x84 'IF '
      [] token = 133 -> <<71, 79, 32>>    \* 0x85 'GO '
      [] token = 134 -> <<71, 79, 84, 79, 32>>    \* 0x86 'GOTO '
      [] token = 135 -> <<71, 79, 83, 85, 66, 32>>    \* 0x87 'GOSUB '
      [] token = 136 -> <<82, 69, 84, 85, 82, 78, 32>>    \* 0x88 'RETURN '
      [] token = 137 -> <<68, 69, 70, 32>>    \* 0x89 'DEF '
      [] token = 138 -> <<68, 73, 77, 32>>    \* 0x8a 'DIM '
      [] token = 139 -> <<69, 78, 68, 32>>    \* 0x8b 'END '
      [] token = 140 -> <<70, 79, 82, 32>>    \* 0x8c 'FOR '
      [] token = 141 -> <<76, 69, 84, 32>>    \* 0x8d 'LET '
      [] token = 142 -> <<66, 82, 69, 65, 75, 32>>    \* 0x8e 'BREAK '
      [] token = 143 -> <<85, 78, 66, 82, 69, 65, 75, 32>>    \* 0x8f 'UNBREAK '
      [] token = 144 -> <<84, 82, 65, 67, 69, 32>>    \* 0x90 'TRACE '
      [] token = 145 -> <<85, 78, 84, 82, 65, 67, 69, 32>>    \* 0x91 'UNTRACE '
      [] token = 146 -> <<73, 78, 80, 85, 84, 32>>    \* 0x92 'INPUT '
      [] token = 147 -> <<68, 65, 84, 65, 32>>    \* 0x93 'DATA '
      [] token = 148 -> <<82, 69, 83, 84, 79, 82, 69, 32>>    \* 0x94 'RESTORE '
      [] token = 149 -> <<82, 65, 78, 68, 79, 77, 73, 90, 69, 32>>    \* 0x95 'RANDOMIZE '
      [] token = 150 -> <<78, 69, 88, 84, 32>>    \* 0x96 'NEXT '
      [] token = 151 -> <<82, 69, 65, 68, 32>>    \* 0x97 'READ '
      [] token = 152 -> <<83, 84, 79, 80, 32>>    \* 0x98 'STOP '
      [] token = 153 -> <<68, 69, 76, 69, 84, 69, 32>>    \* 0x99 'DELETE '
      [] token = 154 -> <<82, 69, 77, 32>>    \* 0x9a 'REM '
      [] token = 155 -> <<79, 78, 32>>    \* 0x9b 'ON '
      [] token = 156 -> <<80, 82, 73, 78, 84, 32>>    \* 0x9c 'PRINT '
      [] token = 157 -> <<67, 65, 76, 76, 32>>    \* 0x9d 'CALL '
      [] token = 158 -> <<79, 80, 84, 73, 79, 78, 32>>    \* 0x9e 'OPTION '
      [] token = 159 -> <<79, 80, 69, 78, 32>>    \* 0x9f 'OPEN '
      [] token = 160 -> <<67, 76, 79, 83, 69, 32>>    \* 0xa0 'CLOSE '
      [] token = 161 -> <<83, 85, 66, 32>>    \* 0xa1 'SUB '
      [] token = 162 -> <<68, 73, 83, 80, 76, 65, 89, 32>>    \* 0xa2 'DISPLAY '
      [] token = 163 -> <<73, 77, 65, 71, 69, 32>>    \* 0xa3 'IMAGE '
      [] token = 164 -> <<65, 67, 67, 69, 80, 84, 32>>    \* 0xa4 'ACCEPT '
      [] token = 165 -> <<69, 82, 82, 79, 82, 32>>    \* 0xa5 'ERROR '
      [] token = 166 -> <<87, 65, 82, 78, 73, 78, 71, 32>>    \* 0xa6 'WARNING '
      [] token = 167 -> <<83, 85, 66, 69, 88, 73, 84, 32>>    \* 0xa7 'SUBEXIT '
      [] token = 168 -> <<83, 85, 66, 69, 78, 68, 32>>    \* 0xa8 'SUBEND '
      [] token = 169 -> <<82, 85, 78, 32>>    \* 0xa9 'RUN '
      [] token = 170 -> <<76, 73, 78, 80, 85, 84, 32>>    \* 0xaa 'LINPUT '
      [] token = 176 -> <<84, 72, 69, 78, 32>>    \* 0xb0 'THEN '
      [] token = 177 -> <<84, 79, 32>>    \* 0xb1 'TO '
      [] token = 178 -> <<83, 84, 69, 80, 32>>    \* 0xb2 'STEP '
      [] token = 179 -> <<44, 32>>    \* 0xb3 ', '
      [] token = 180 -> <<32, 59, 32>>    \* 0xb4 ' ; '
      [] token = 181 -> <<32, 58, 32>>    \* 0xb5 ' : '
      [] token = 182 -> <<41, 32>>    \* 0xb6 ') '
      [] token = 183 -> <<40, 32>>    \* 0xb7 '( '
      [] token = 184 -> <<38, 32>>    \* 0xb8 '& '
      [] token = 186 -> <<79, 82, 32>>    \* 0xba 'OR '
      [] token = 187 -> <<65, 78, 68, 32>>    \* 0xbb 'AND '
      [] token = 188 -> <<88, 79, 82, 32>>    \* 0xbc 'XOR '
      [] token = 189 -> <<78, 79, 84, 32>>    \* 0xbd 'NOT '
      [] token = 190 -> <<61, 32>>    \* 0xbe '= '
      [] token = 191 -> <<60, 32>>    \* 0xbf '< '
      [] token = 192 -> <<62, 32>>    \* 0xc0 '> '
      [] token = 193 -> <<43, 32>>    \* 0xc1 '+ '
      [] token = 194 -> <<45, 32>>    \* 0xc2 '- '
      [] token = 195 -> <<42, 32>>    \* 0xc3 '* '
      [] token = 196 -> <<47, 32>>    \* 0xc4 '/ '
      [] token = 197 -> <<94, 32>>    \* 0xc5 '^ '
      [] token = 202 -> <<69, 79, 70, 32>>    \* 0xca 'EOF '
      [] token = 203 -> <<65, 66, 83, 32>>    \* 0xcb 'ABS '
      [] token = 204 -> <<65, 84, 78, 32>>    \* 0xcc 'ATN '
      [] token = 205 -> <<67, 79, 83, 32>>    \* 0xcd 'COS '
      [] token = 206 -> <<69, 88, 80, 32>>    \* 0xce 'EXP '
      [] token = 207 -> <<73, 78, 84, 32>>    \* 0xcf 'INT '
      [] token = 208 -> <<76, 79, 71, 32>>    \* 0xd0 'LOG '
      [] token = 209 -> <<83, 71, 78, 32>>    \* 0xd1 'SGN '
      [] token = 210 -> <<83, 73, 78, 32>>    \* 0xd2 'SIN '
      [] token = 211 -> <<83, 81, 82, 32>>    \* 0xd3 'SQR '
      [] token = 212 -> <<84, 65, 78, 32>>    \* 0xd4 'TAN '
      [] token = 213 -> <<76, 69, 78, 32>>    \* 0xd5 'LEN '
      [] token = 214 -> <<67, 72, 82, 36, 32>>    \* 0xd6 'CHR$ '
      [] token = 215 -> <<82, 78, 68, 32>>    \* 0xd7 'RND '
      [] token = 216 -> <<83, 69, 71, 36, 32>>    \* 0xd8 'SEG$ '
      [] token = 217 -> <<80, 79, 83, 32>>    \* 0xd9 'POS '
      [] token = 218 -> <<86, 65, 76, 32>>    \* 0xda 'VAL '
      [] token = 219 -> <<83, 84, 82, 36, 32>>    \* 0xdb 'STR$ '
      [] token = 220 -> <<65, 83, 67, 32>>    \* 0xdc 'ASC '
      [] token = 221 -> <<80, 73, 32>>    \* 0xdd 'PI '
      [] token = 222 -> <<82, 69, 67, 32>>    \* 0xde 'REC '
      [] token = 223 -> <<77, 65, 88, 32>>    \* 0xdf 'MAX '
      [] token = 224 -> <<77, 73, 78, 32>>    \* 0xe0 'MIN '
      [] token = 225 -> <<82, 80, 84, 36, 32>>    \* 0xe1 'RPT$ '
      [] token = 232 -> <<78, 85, 77, 69, 82, 73, 67, 32>>    \* 0xe8 'NUMERIC '
      [] token = 233 -> <<68, 73, 71, 73, 84, 32>>    \* 0xe9 'DIGIT '
      [] token = 234 -> <<85, 65, 76, 80, 72, 65, 32>>    \* 0xea 'UALPHA '
      [] token = 235 -> <<83, 73, 90, 69, 32>>    \* 0xeb 'SIZE '
      [] token = 236 -> <<65, 76, 76, 32>>    \* 0xec 'ALL '
      [] token = 237 -> <<85, 83, 73, 78, 71, 32>>    \* 0xed 'USING '
      [] token = 238 -> <<66, 69, 69, 80, 32>>    \* 0xee 'BEEP '
      [] token = 239 -> <<69, 82, 65, 83, 69, 32>>    \* 0xef 'ERASE '
      [] token = 240 -> <<65, 84, 32>>    \* 0xf0 'AT '
      [] token = 241 -> <<66, 65, 83, 69, 32>>    \* 0xf1 'BASE '
      [] token = 243 -> <<86, 65, 82, 73, 65, 66, 76, 69, 32>>    \* 0xf3 'VARIABLE '
      [] token = 244 -> <<82, 69, 76, 65, 84, 73, 86, 69, 32>>    \* 0xf4 'RELATIVE '
      [] token = 245 -> <<73, 78, 84, 69, 82, 78, 65, 76, 32>>    \* 0xf5 'INTERNAL '
      [] token = 246 -> <<83, 69, 81, 85, 69, 78, 84, 73, 65, 76, 32>>    \* 0xf6 'SEQUENTIAL '
      [] token = 247 -> <<79, 85, 84, 80, 85, 84, 32>>    \* 0xf7 'OUTPUT '
      [] token = 248 -> <<85, 80, 68, 65, 84, 69, 32>>    \* 0xf8 'UPDATE '
      [] token = 249 -> <<65, 80, 80, 69, 78, 68, 32>>    \* 0xf9 'APPEND '
      [] token = 250 -> <<70, 73, 88, 69, 68, 32>>    \* 0xfa 'FIXED '
      [] token = 251 -> <<80, 69, 82, 77, 65, 78, 69, 78, 84, 32>>    \* 0xfb 'PERMANENT '
      [] token = 252 -> <<84, 65, 66, 32>>    \* 0xfc 'TAB '
      [] token = 253 -> <<35, 32>>    \* 0xfd '# '
      [] token = 254 -> <<86, 65, 76, 73, 68, 65, 84, 69, 32>>    \* 0xfe 'VALIDATE '
      [] OTHER -> <<>>

\* the test of line 482: a character an identifier may begin with
IdentStart(c) ==
    \/ c >= 65 /\ c <= 90
    \/ c >= 97 /\ c <= 122
    \/ c \in { 92, 91, 93, 95, 64 }

\* the test of line 491 on next_char: token is a number there, so the
\* comparisons of token with '\\', '[' and ']' are false
IdentNext(c) ==
    \/ c >= 65 /\ c <= 90
    \/ c >= 97 /\ c <= 122
    \/ c >= 48 /\ c <= 57
    \/ c \in { 36, 95, 64 }

\* the loop of lines 491-501: r is the offset and the line so far
RECURSIVE ident_loop(_, _, _)
ident_loop(data, addr, r) ==
    IF ~IdentNext(At(data, addr + r.off)) THEN r
    ELSE IF At(data, addr + r.off) = 36
    THEN [off |-> r.off + 1, line |-> Append(r.line, 36)]
    ELSE ident_loop(data, addr,
             [off |-> r.off + 1,
              line |-> Append(r.line, At(data, addr + r.off))])

\* lines 360-383: a quoted (0xc7) or unquoted (0xc8) string, off being the
\* offset after the token
string_token(data, addr, line_len, off, line, token) ==
    IF off + 1 > line_len
    THEN [off |-> off, line |-> line, raised |-> "DecodeException"]
    ELSE IF off + 1 + At(data, addr + off) > line_len
    THEN [off |-> off + 1, line |-> line, raised |-> "DecodeException"]
    ELSE [off |-> off + 1 + At(data, addr + off),
          line |-> line
                     \o (IF token = 199 THEN <<34>> ELSE <<>>)
                     \o Slice(data, addr + off + 1,
                              addr + off + 1 + At(data, addr + off))
                     \o (IF token = 199 THEN <<34, 32>> ELSE <<32>>),
          raised |-> ""]

\* one pass of the loop of lines 226-506 for the token at off: the offset
\* and the line after it, and the exception it raised
one_token(data, addr, line_len, off, line, token) ==
    IF token \in { 131, 154 }
    THEN [off |-> line_len,
          line |-> line \o token_text(token)
                     \o Slice(data, addr + off + 1, addr + line_len),
          raised |-> ""]
    ELSE IF token_text(token) # <<>>
    THEN [off |-> off + 1, line |-> line \o token_text(token), raised |-> ""]
    ELSE IF token \in { 199, 200 }
    THEN string_token(data, addr, line_len, off + 1, line, token)
    ELSE IF token = 201
    THEN IF off + 1 + 2 > line_len
         THEN [off |-> off + 1, line |-> line, raised |-> "DecodeException"]
         ELSE [off |-> off + 3,
               line |-> line \o Str(SignedWord(data, addr + off + 1)),
               raised |-> ""]
    ELSE IF IdentStart(token)
    THEN [off |-> ident_loop(data, addr,
                      [off |-> off + 1, line |-> Append(line, token)]).off,
          line |-> Append(ident_loop(data, addr,
                      [off |-> off + 1, line |-> Append(line, token)]).line,
                          32),
          raised |-> ""]
    ELSE [off |-> off + 1, line |-> line, raised |-> "AttributeError"]

\* the loop of lines 226-506 from offset r.off on; when the loop ends with
\* an invalid token, line 504 has printed the line so far (printed) and
\* line 505 has raised AttributeError: bytes has no method encode
RECURSIVE token_loop(_, _, _, _)
token_loop(data, addr, line_len, r) ==
    IF r.raised # ""
    THEN [line |-> r.line, raised |-> r.raised,
          printed |-> r.raised = "AttributeError"]
    ELSE IF r.off >= line_len
    THEN [line |-> r.line, raised |-> "", printed |-> FALSE]
    ELSE token_loop(data, addr, line_len,
             CHOOSE n \in { one_token(data, addr, line_len, r.off, r.line,
                                      At(data, addr + r.off)) } : TRUE)

\* decode_line
decode_line(data, addr) ==
    IF addr >= Len(data) \/ addr < 0 - Len(data)
    THEN [line |-> <<>>, raised |-> "IndexError", printed |-> FALSE]
    ELSE IF addr + At(data, addr) >= Len(data)
    THEN [line |-> <<>>, raised |-> "DecodeException", printed |-> FALSE]
    ELSE IF At(data, addr + At(data, addr)) # 0
    THEN [line |-> <<>>, raised |-> "DecodeException", printed |-> FALSE]
    ELSE token_loop(data, addr, At(data, addr),
                    [off |-> 1, line |-> <<>>, raised |-> ""])

\* the lister as it starts on an image (lines 511-512): pc is the point of
\* the program it has reached, out the lines of the listing it has printed
\* (lines 504 and 526; the messages of lines 165, 172, 188 and 192 are not
\* kept), listed the number of the line the loop of line 525 printed last
lister_start(data) ==
    [data |-> data, pc |-> "header", header |-> [none |-> TRUE], lt |-> <<>>,
     listed |-> -1, out |-> <<>>, raised |-> ""]

\* line 514
main_parse_header(l) ==
    IF parse_header(l.data).exit THEN [l EXCEPT !.pc = "exit"]
    ELSE [l EXCEPT !.pc = "table", !.header = parse_header(l.data).header]

\* line 524; header['line_table_start'] of a header that is None raises
\* TypeError
main_parse_line_table(l) ==
    IF l.header.none THEN [l EXCEPT !.pc = "raised", !.raised = "TypeError"]
    ELSE IF parse_line_table(l.data, l.header).exit
    THEN [l EXCEPT !.pc = "exit"]
    ELSE [l EXCEPT !.lt = parse_line_table(l.data, l.header).lt,
                   !.pc = IF DOMAIN parse_line_table(l.data, l.header).lt = {}
                          THEN "done" ELSE "lines"]

\* the line numbers the loop of line 525 has still to go through
lines_left(l) == { no \in DOMAIN l.lt : no > l.listed }

\* the next of them in sorted(lt)
next_line(l) == CHOOSE no \in lines_left(l) : \A k \in lines_left(l) : no <= k

\* one pass of the loop of lines 525-526 for line number no, r being what
\* decode_line gave for it
line_listed(l, no, r) ==
    IF r.raised # ""
    THEN [l EXCEPT !.pc = "raised", !.raised = r.raised,
                   !.out = IF r.printed THEN Append(@, r.line) ELSE @]
    ELSE [l EXCEPT !.out = Append(@, Format5(no) \o <<32>> \o r.line),
                   !.listed = no,
                   !.pc = IF lines_left(l) = { no } THEN "done" ELSE "lines"]

\* one pass of the loop of lines 525-526
main_list_line(l) ==
    line_listed(l, next_line(l), decode_line(l.data, l.lt[next_line(l)]))

(***************************************************************************)
(* SpecData: DataProc driven through its interface (DataProcIface) the way *)
(* BitProc drives it: bytes one at a time, resync_failed_cb only while the *)
(* lower layer is waiting for a sync (before a header, or after DataProc   *)
(* answered REQUEST_RESYNC, NOTIFY_DONE or the callback), process_eof once *)
(* at the end of the input.                                                *)
(***************************************************************************)
\* Bounds of the inputs
MaxRecCnt == 2      \* header bytes are drawn from 0..MaxRecCnt
Fill == 4           \* value of the first RECORD_LEN - 1 bytes of every copy

\* the two payloads the inputs can spell: Fill ... Fill 3 and Fill ... Fill 7
ChkA == ((RECORD_LEN - 1) * Fill + 3) % 256
ChkB == ((RECORD_LEN - 1) * Fill + 7) % 256

\* (value, error mask) of the last payload byte of a copy: the two intact
\* values; 3 with one of its two bits lost and flagged; 3 with a bit lost and
\* not flagged; 3 intact with a bit flagged
LastByteInputs == { <<3, 0>>, <<7, 0>>, <<1, 2>>, <<2, 1>>, <<1, 0>>, <<3, 1>> }

\* the (value, error mask) pairs the lower layer may deliver next
ByteInputs(d) ==
    IF d.read_header THEN (0..MaxRecCnt) \X {0}
    ELSE IF Len(d.buf) < RECORD_LEN - 1 THEN { <<Fill, 0>> }
    ELSE IF Len(d.buf) = RECORD_LEN - 1 THEN LastByteInputs
    ELSE { <<ChkA, 0>>, <<ChkB, 0>> }

NoCall == [op |-> "init", val |-> 0, mask |-> 0, ret |-> None,
           before |-> DataProc_init]

\* the layers below DataProc, which SpecData leaves as constructed
lower == <<CONFIG, sp, bp, calls, enc, wav, chan, lister>>

InitData ==
    /\ CONFIG = profiles[DEFAULT_PROFILE]
    /\ sp = SignalProc_init
    /\ bp = BitProc_init
    /\ calls = <<>>
    /\ enc = None
    /\ wav = <<>>
    /\ chan = None
    /\ dp = DataProc_init
    /\ last = NoCall
    /\ exc = ""
    /\ lister = None
    /\ eof = FALSE

Running == exc = "" /\ ~eof

\* the tape holds nothing after the first program that was written out
InputOpen == dp.files = <<>>

\* the lower layer is in TRAINING or RESYNC: no byte is half way
AwaitingSync == last.op = "init" \/ last.ret # None

process_byte ==
    /\ Running
    /\ InputOpen
    /\ \E in \in ByteInputs(dp) :
         \E r \in { DataProc_process_byte(dp, in[1], in[2]) } :
             /\ dp' = r.d
             /\ exc' = r.raised
             /\ last' = [op |-> "process_byte", val |-> in[1], mask |-> in[2],
                         ret |-> r.ret, before |-> dp]
    /\ UNCHANGED <<eof, lower>>

resync_failed_cb ==
    /\ Running
    /\ AwaitingSync
    /\ InputOpen
    /\ \E r \in { DataProc_resync_failed_cb(dp) } :
           /\ dp' = r.d
           /\ exc' = r.raised
           /\ last' = [op |-> "resync_failed_cb", val |-> 0, mask |-> 0,
                       ret |-> IF r.ret THEN "True" ELSE "False", before |-> dp]
    /\ UNCHANGED <<eof, lower>>

process_eof ==
    /\ Running
    /\ dp' = DataProc_process_eof(dp)
    /\ eof' = TRUE
    /\ last' = [op |-> "process_eof", val |-> 0, mask |-> 0, ret |-> None,
                before |-> dp]
    /\ UNCHANGED <<exc, lower>>

NextData == process_byte \/ resync_failed_cb \/ process_eof

SpecData == InitData /\ [][NextData]_vars

(***************************************************************************)
(* What the most recent call into DataProc was about                       *)
(***************************************************************************)
\* the sum of the elements lo .. hi of s
RECURSIVE SumRange(_, _, _)
SumRange(s, lo, hi) ==
    IF lo > hi THEN 0
    ELSE IF lo = hi THEN s[lo]
    ELSE SumRange(s, lo, (lo + hi) \div 2) + SumRange(s, (lo + hi) \div 2 + 1, hi)

\* the sum of the elements of s
SumBytes(s) == SumRange(s, 1, Len(s))

\* a 65-byte copy whose last byte is the sum of the others modulo 256
ChecksumOK(copy) ==
    /\ Len(copy) = RECORD_LEN + 1
    /\ copy[RECORD_LEN + 1] = SumBytes(SubSeq(copy, 1, RECORD_LEN)) % 256

\* the payload bytes of a 65-byte copy
PayloadOf(copy) == SubSeq(copy, 1, RECORD_LEN)

\* the last call made DataProc evaluate a record copy: its 65th byte came in,
\* or the lower layer reported that the copy was lost
CopyEvaluated ==
    /\ ~last.before.read_header
    /\ \/ last.op = "process_byte" /\ Len(last.before.buf) = RECORD_LEN
       \/ last.op = "resync_failed_cb"
PrimaryEvaluated == CopyEvaluated /\ last.before.rec_primary
SecondaryEvaluated == CopyEvaluated /\ ~last.before.rec_primary

\* the copy that was evaluated (empty when it was lost) and the error masks
\* that came with its bytes
Copy ==
    IF last.op = "process_byte" THEN Append(last.before.buf, last.val) ELSE <<>>
CopyMask ==
    IF last.op = "process_byte"
    THEN Tail_n(Append(last.before.buf_error_mask, last.mask), RECORD_LEN + 1)
    ELSE <<>>

\* the failed primary copy DataProc retained, and the masks of its bytes
Primary == last.before.rec_primary_buf
PrimaryMask == Tail_n(last.before.rec_primary_error_mask, RECORD_LEN + 1)

\* the last call wrote a program out, and the payload it wrote
Emitted == Len(dp.files) = Len(last.before.files) + 1
EmittedPayload == dp.files[Len(dp.files)]

\* the last call completed or abandoned the program: DataProc answered
\* NOTIFY_DONE, which resync_failed_cb hands on as False
Completed ==
    \/ last.ret = NOTIFY_DONE
    \/ last.op = "resync_failed_cb" /\ last.ret = "False"

\* the last call ended the program (completed, abandoned or end of input)
ProgramEnded == Completed \/ last.op = "process_eof"

\* byte-wise OR of two copies of the same length
ORCopies(a, b) == [i \in 1..Len(a) |-> BitOr(a[i], b[i])]

\* both copies are there and failed, their masks overlap nowhere, and the OR
\* of the copies passes the checksum
Reconstructible ==
    /\ Len(Primary) = RECORD_LEN + 1 /\ Len(Copy) = RECORD_LEN + 1
    /\ ~ChecksumOK(Primary) /\ ~ChecksumOK(Copy)
    /\ \A i \in 1..(RECORD_LEN + 1) : BitAnd(PrimaryMask[i], CopyMask[i]) = 0
    /\ ChecksumOK(ORCopies(Primary, Copy))

(***************************************************************************)
(* Claims on DataProc (SpecData)                                           *)
(***************************************************************************)

\* C2: when both copies of a record fail their checksum, their error masks
\* are disjoint at every byte and the OR of the copies passes the checksum,
\* the 64 bytes appended to the payload are the first 64 bytes of the OR.
\* (Stated as the claim has it; the code does not do this.)
C2_ReconstructedAppended ==
    (SecondaryEvaluated /\ ~last.before.rec_processed /\ Reconstructible)
    => /\ exc = ""
       /\ IF ProgramEnded
          THEN Emitted = ~last.before.data_corrupt
               /\ (Emitted => EmittedPayload =
                      last.before.data \o PayloadOf(ORCopies(Primary, Copy)))
          ELSE dp.data = last.before.data \o PayloadOf(ORCopies(Primary, Copy))

\* C4: every program DataProc writes out has a record count in 1..255 and a
\* payload of 64 * record count bytes.
\* (Stated as the claim has it; the code does not do this.)
C4_EmittedProgramSize ==
    Emitted => /\ last.before.rec_cnt \in 1..255
               /\ Len(EmittedPayload) = RECORD_LEN * last.before.rec_cnt

\* C5: if both copies of a record fail and they cannot be reconstructed, the
\* program is not written out and DataProc goes on with the next copy.
\* (Stated as the claim has it; the code does not do this.)
C5_UnrecoverableGoesOn ==
    (SecondaryEvaluated /\ ~last.before.rec_processed
        /\ ~ChecksumOK(Copy) /\ ~Reconstructible)
    => /\ exc = ""
       /\ ~Emitted
       /\ last.before.rec_idx + 1 < last.before.rec_cnt
            => dp.data_corrupt /\ dp.rec_idx = last.before.rec_idx + 1
               /\ dp.rec_primary /\ last.ret \in {REQUEST_RESYNC, "True"}

\* C5, witness of the counterexample's case: both copies came in whole, failed
\* and have overlapping masks
C5_BothFailedOverlap ==
    /\ SecondaryEvaluated /\ ~last.before.rec_processed
    /\ Len(Primary) = RECORD_LEN + 1 /\ Len(Copy) = RECORD_LEN + 1
    /\ ~ChecksumOK(Copy) /\ ~Reconstructible

\* the payload of the program after the last call is p: held by DataProc, or,
\* when the call completed the program, written out if anything was
PayloadIs(p) ==
    /\ exc = ""
    /\ IF Completed
       THEN Emitted => EmittedPayload = p
       ELSE dp.data = p

\* the last call did not mark the program corrupt
NotMarkedCorrupt ==
    IF Completed
    THEN Emitted = ~last.before.data_corrupt
    ELSE dp.data_corrupt = last.before.data_corrupt

\* C7: a primary copy that passes its checksum is accepted and its 64 payload
\* bytes are appended; after an accepted primary no secondary (valid, invalid
\* or lost) changes the payload; after a failed primary a secondary that
\* passes is appended and the program is not marked corrupt.
C7_RecordSelection ==
    /\ (PrimaryEvaluated /\ ChecksumOK(Copy))
         => /\ PayloadIs(last.before.data \o PayloadOf(Copy))
            /\ ~Completed => dp.rec_processed
    /\ (PrimaryEvaluated /\ ~ChecksumOK(Copy))
         => /\ PayloadIs(last.before.data)
            /\ ~Completed => ~dp.rec_processed
    /\ (SecondaryEvaluated /\ last.before.rec_processed)
         => PayloadIs(last.before.data)
    /\ (SecondaryEvaluated /\ ~last.before.rec_processed /\ ChecksumOK(Copy))
         => /\ PayloadIs(last.before.data \o PayloadOf(Copy))
            /\ NotMarkedCorrupt

\* C7, witness: a secondary that passes after a primary that came in whole
\* and failed, completing a program that is written out
C7_SecondaryTaken ==
    /\ SecondaryEvaluated /\ ~last.before.rec_processed /\ ChecksumOK(Copy)
    /\ Len(Primary) = RECORD_LEN + 1
    /\ Emitted /\ Len(EmittedPayload) = 2 * RECORD_LEN

\* the secondary passes its checksum after an accepted primary, and its
\* payload is not the 64 bytes that were appended for the primary
SecondaryDiffers ==
    /\ SecondaryEvaluated /\ last.before.rec_processed /\ ChecksumOK(Copy)
    /\ Len(last.before.data) >= RECORD_LEN
    /\ PayloadOf(Copy) # SubSeq(last.before.data,
                                Len(last.before.data) - RECORD_LEN + 1,
                                Len(last.before.data))

\* C8: when the secondary passes its checksum after an accepted primary and
\* its payload differs from the 64 bytes just appended, the program is marked
\* corrupt and decoding goes on with the next record; a program marked
\* corrupt is not written out, neither on completion nor at end of input.
C8_MismatchMarksCorrupt ==
    /\ SecondaryDiffers
         => /\ exc = ""
            /\ ~Emitted
            /\ ~Completed
                 => /\ dp.data_corrupt
                    /\ dp.rec_idx = last.before.rec_idx + 1
                    /\ dp.rec_primary
                    /\ last.ret \in {REQUEST_RESYNC, "True"}
    /\ last.before.data_corrupt => ~Emitted

\* C8, witness: the mismatch happens on the last record of a program
C8_MismatchOnLastRecord ==
    SecondaryDiffers /\ Completed

\* C9: the record check accepts a buffer if and only if it has 65 bytes and
\* the last one is the sum of the first 64 modulo 256; a primary copy is
\* accepted exactly when that holds.
C9_ChecksumLaw ==
    CopyEvaluated
      => /\ verify_record(Copy) <=> ChecksumOK(Copy)
         /\ (last.before.rec_primary /\ ~Completed)
              => (dp.rec_processed <=> ChecksumOK(Copy))

\* C9, witness: a copy is accepted whose payload sums to more than one byte
C9_AcceptedWithCarry ==
    /\ PrimaryEvaluated /\ ChecksumOK(Copy)
    /\ SumBytes(PayloadOf(Copy)) >= 256
    /\ dp.rec_processed

(***************************************************************************)
(* SpecBit: BitProc and DataProc driven by the edges of a tape.            *)
(*                                                                         *)
(* The tape carries symbols of SYMBOL_LEN samples, an edge at the start of *)
(* every symbol and one more in the middle of a 1.  SignalProc reports an  *)
(* edge together with the peak of the level that ended, PeakLag samples    *)
(* after that level began.  In the ACTIVE state a burst of edges may be    *)
(* lost (a dropout): the level then lasts until the next edge that is      *)
(* seen, and its peak stays where it was.                                  *)
(***************************************************************************)
\* Bounds of the tape
PilotBytes == 52    \* zero bytes of a pilot tone (training takes 400 symbols)
PeakLag == 8        \* samples from the start of a level to its peak
MaxBurst == 2       \* edges lost in the one dropout of a tape

Pilot == [x \in 1..PilotBytes |-> 0]

\* a header whose bytes differ, then a pilot and the start of a program of
\* two records: header, record sync, data mark and the first bytes
TapeMismatch ==
    Pilot \o <<255, 3, 4>> \o Pilot \o <<255, 2, 2>>
          \o <<0, 0, 0, 0, 0, 0, 0, 0, 255, 165, 0>>

\* a program of one record that stops within the first copy
TapeShort ==
    Pilot \o <<255, 1, 1>> \o <<0, 0, 0, 0, 0, 0, 0, 0, 255, 129, 60, 0>>

Tapes == { TapeMismatch, TapeShort }

\* 2 ** n
RECURSIVE Pow2(_)
Pow2(n) == IF n = 0 THEN 1 ELSE 2 * Pow2(n - 1)

\* symbol k of the tape (counted from 0), most significant bit first
TapeBit(tape, k) == (tape[k \div 8 + 1] \div Pow2(7 - (k % 8))) % 2

\* the sample at which the edge at half h of symbol k occurs
EdgeTime(k, h) == k * SYMBOL_LEN + h * (SYMBOL_LEN \div 2)

TapeDone == chan.k >= 8 * Len(chan.tape)

\* a byte of 256 on a tape stands for eight symbol times of silence: the
\* signal stays within the hysteresis and SignalProc reports no edge.
\* Sounding(tape, k) is the first symbol from k on that is not silent
RECURSIVE Sounding(_, _)
Sounding(tape, k) ==
    IF k >= 8 * Len(tape) THEN k
    ELSE IF tape[k \div 8 + 1] # 256 THEN k
    ELSE Sounding(tape, 8 * (k \div 8 + 1))

\* the position of the edge after the one at chan.k, chan.h
AfterEdge(c) ==
    IF c.h = 0 /\ TapeBit(c.tape, c.k) = 1
    THEN [c EXCEPT !.h = 1]
    ELSE [c EXCEPT !.k = Sounding(c.tape, @ + 1), !.h = 0]

InitBit ==
    /\ CONFIG = profiles[DEFAULT_PROFILE]
    /\ sp = SignalProc_init
    /\ bp = BitProc_init
    /\ dp = DataProc_init
    /\ calls = <<>>
    /\ last = NoCall
    /\ exc = ""
    /\ lister = None
    /\ eof = FALSE
    /\ enc = None
    /\ wav = <<>>
    /\ \E tape \in Tapes :
         chan = [tape |-> tape, k |-> 1, h |-> 0, run_start |-> 0, level |-> 0,
                 dropped |-> 0, bursting |-> FALSE, done |-> 0]

\* how many of the calls answered NOTIFY_DONE
RECURSIVE CountDone(_)
CountDone(cs) ==
    IF cs = <<>> THEN 0
    ELSE (IF cs[1].ret = NOTIFY_DONE THEN 1 ELSE 0) + CountDone(Tail(cs))

\* SignalProc saw the edge: BitProc.process_edge(edge_idx, peak_idx, level)
DeliverEdge ==
    /\ Running
    /\ ~TapeDone
    /\ \E r \in { BitProc_process_edge(
                      [b |-> bp, d |-> dp, calls |-> <<>>, raised |-> ""],
                      EdgeTime(chan.k, chan.h), chan.run_start + PeakLag,
                      1 - chan.level) } :
           /\ bp' = r.b
           /\ dp' = r.d
           /\ calls' = r.calls
           /\ exc' = r.raised
           /\ last' = IF r.calls = <<>> THEN last ELSE r.calls[Len(r.calls)]
           /\ chan' = [AfterEdge(chan) EXCEPT !.run_start = EdgeTime(chan.k, chan.h),
                                              !.level = 1 - chan.level,
                                              !.bursting = FALSE,
                                              !.done = @ + CountDone(r.calls)]
    /\ UNCHANGED <<CONFIG, sp, eof, enc, wav, lister>>

\* the edge is lost in a dropout: nothing reaches BitProc
DropEdge ==
    /\ Running
    /\ ~TapeDone
    /\ ~bp.training /\ ~bp.resync
    /\ chan.dropped < MaxBurst
    /\ chan.dropped = 0 \/ chan.bursting
    /\ chan' = [AfterEdge(chan) EXCEPT !.dropped = @ + 1, !.bursting = TRUE]
    /\ calls' = <<>>
    /\ UNCHANGED <<CONFIG, sp, bp, dp, last, exc, eof, enc, wav, lister>>

\* the tape is over: BitProc.process_eof
EndOfTape ==
    /\ Running
    /\ TapeDone
    /\ \E r \in { BitProc_process_eof(
                      [b |-> bp, d |-> dp, calls |-> <<>>, raised |-> ""],
                      chan.k * SYMBOL_LEN) } :
           /\ bp' = r.b
           /\ dp' = r.d
    /\ calls' = <<>>
    /\ last' = [op |-> "process_eof", val |-> 0, mask |-> 0, ret |-> None,
                before |-> dp]
    /\ eof' = TRUE
    /\ UNCHANGED <<CONFIG, sp, exc, enc, wav, chan, lister>>

NextBit == DeliverEdge \/ DropEdge \/ EndOfTape

SpecBit == InitBit /\ [][NextBit]_vars

(***************************************************************************)
(* Claims on BitProc (SpecBit)                                             *)
(***************************************************************************)
\* the bytes BitProc handed to DataProc while the latest edge was handled
ByteCalls == { i \in 1..Len(calls) : calls[i].op = "process_byte" }

\* C3: in every byte BitProc hands to DataProc, each bit that was made up
\* for a missed symbol is 0 in the value: value AND error mask is 0.
\* (Stated as the claim has it; the code does not do this.)
C3_SynthesizedBitsZero ==
    \A i \in ByteCalls : BitAnd(calls[i].val, calls[i].mask) = 0

\* C3, the case: a byte is handed over with a bit made up for a missed symbol
C3_ByteWithSynthesizedBit ==
    \E i \in ByteCalls : calls[i].mask % 2 = 1

\* call i of the latest edge gave DataProc a second header byte that is not
\* the first
HeaderMismatch(i) ==
    /\ calls[i].op = "process_byte"
    /\ calls[i].before.read_header
    /\ Len(calls[i].before.buf) = 1
    /\ calls[i].val # calls[i].before.buf[1]

\* C6: when the two header bytes differ DataProc answers NOTIFY_DONE, writes
\* no program and is back in its cleared state, and BitProc is back in
\* TRAINING; on the tape that goes on with a pilot and a header (and loses no
\* edge) that header is decoded: at the end of the tape DataProc is reading
\* the records of a program of two.
C6_HeaderMismatchAbandons ==
    /\ \A i \in 1..Len(calls) :
         HeaderMismatch(i)
           => /\ calls[i].ret = NOTIFY_DONE
              /\ i = Len(calls)
              /\ exc = ""
              /\ dp.files = calls[i].before.files
              /\ dp.file_idx = calls[i].before.file_idx
              /\ dp.read_header /\ dp.buf = <<>> /\ dp.buf_error_mask = <<>>
              /\ dp.rec_cnt = 0 /\ dp.rec_idx = 0 /\ dp.data = <<>>
              /\ dp.rec_primary /\ ~dp.rec_processed /\ ~dp.data_corrupt
              /\ bp.training /\ ~bp.resync
              /\ bp.training_matches = <<>> /\ bp.bit_cnt = 0
    /\ (eof /\ chan.tape = TapeMismatch /\ chan.dropped = 0)
         => /\ chan.done = 1
            /\ ~last.before.read_header
            /\ last.before.rec_cnt = 2
            /\ last.before.buf = <<165>>
            /\ dp.files = <<>>

\* C6, witness: the tape with the mismatch was played to its end without a
\* dropout, one NOTIFY_DONE was answered, and the header after it was read
C6_NewProgramAfterMismatch ==
    /\ eof /\ chan.tape = TapeMismatch /\ chan.dropped = 0
    /\ chan.done = 1
    /\ last.before.rec_cnt = 2

(***************************************************************************)
(* SpecTape: the encoder writes a sample stream and the decoder reads it.  *)
(*                                                                         *)
(* The encoder writes the wave file one symbol at a time (one pass of the  *)
(* loop of write_byte); the decoder reads what was written and hands each  *)
(* sample to SignalProc.process_sample.  The decoder's result depends only *)
(* on the order of the samples, so reading a symbol as soon as it is       *)
(* written gives what reading the finished file gives.                     *)
(***************************************************************************)
\* the encoder's inputs: 64 bytes 1 .. 64, 64 bytes 0xff, two records, and
\* three bytes (which are padded to one record)
Data64 == [x \in 1..64 |-> x]
DataHigh == [x \in 1..64 |-> 255]
Data128 == [x \in 1..128 |-> (x * 7) % 256]
Data3 == <<1, 2, 3>>
Inputs == { Data64, DataHigh, Data128, Data3 }

InitTape ==
    /\ CONFIG \in { profiles.peak1, profiles.edge1 }
    /\ sp = SignalProc_init
    /\ bp = BitProc_init
    /\ dp = DataProc_init
    /\ calls = <<>>
    /\ last = NoCall
    /\ exc = ""
    /\ lister = None
    /\ eof = FALSE
    /\ \E input \in Inputs : enc = encoder_start(input)
    /\ wav = <<>>
    /\ chan = None

\* the encoder has closed its output
EncoderDone == enc.phase \in {"done", "exit"} /\ enc.j = 0

\* the encoder: the next pass of the loop of write_byte, in the write_byte
\* call that is going on or, when that has ended, in the next one
encoder_write_bit ==
    /\ ~EncoderDone
    /\ wav = <<>>
    /\ \E w \in { write_bit(IF enc.j = 0 THEN next_byte(enc) ELSE enc) } :
           /\ enc' = w.e
           /\ wav' = w.samples
    /\ UNCHANGED <<CONFIG, sp, bp, dp, calls, last, exc, eof, chan, lister>>

\* the decoder: wf.readframes and the loop over the frames it returned
decoder_read_frames ==
    /\ Running
    /\ wav # <<>>
    /\ \E r \in { feed_samples(
                      [s |-> sp, b |-> bp, d |-> dp, calls |-> <<>>,
                       raised |-> ""],
                      wav, 1, Len(wav)) } :
           /\ sp' = r.s
           /\ bp' = r.b
           /\ dp' = r.d
           /\ calls' = r.calls
           /\ exc' = r.raised
           /\ last' = IF r.calls = <<>> THEN last ELSE r.calls[Len(r.calls)]
    /\ wav' = <<>>
    /\ UNCHANGED <<CONFIG, eof, enc, chan, lister>>

\* the decoder: readframes returned nothing, sig_proc.process_eof()
decoder_eof ==
    /\ Running
    /\ EncoderDone
    /\ wav = <<>>
    /\ \E r \in { SignalProc_process_eof(
                      [s |-> sp, b |-> bp, d |-> dp, calls |-> <<>>,
                       raised |-> ""]) } :
           /\ bp' = r.b
           /\ dp' = r.d
    /\ calls' = <<>>
    /\ last' = [op |-> "process_eof", val |-> 0, mask |-> 0, ret |-> None,
                before |-> dp]
    /\ eof' = TRUE
    /\ UNCHANGED <<CONFIG, sp, exc, enc, wav, chan, lister>>

NextTape == encoder_write_bit \/ decoder_read_frames \/ decoder_eof

SpecTape == InitTape /\ [][NextTape]_vars

(***************************************************************************)
(* Claims on the encoder and on the round trip (SpecTape)                  *)
(***************************************************************************)
\* the decoder has ended: at the end of its input, or with an exception
DecoderEnded == eof \/ exc # ""

\* the encoder's input is a payload the round trip is claimed for
WholeRecords ==
    /\ Len(enc.input) > 0
    /\ Len(enc.input) % RECORD_LEN = 0
    /\ Len(enc.input) <= 255 * RECORD_LEN

\* C1: for a payload of a positive multiple of 64 bytes (at most 255 * 64),
\* the decoder, fed the samples the encoder wrote, ends having written out
\* exactly one program, whose payload is the encoder's input.  Stated for
\* the default profile; under the other profile the first edge raises
\* UnboundLocalError (C1_OtherProfileRaises).
\* (Stated as the claim has it; the code does not do this.)
C1_RoundTrip ==
    (DecoderEnded /\ WholeRecords /\ CONFIG = profiles[DEFAULT_PROFILE])
      => /\ exc = ""
         /\ dp.files = <<enc.input>>

\* C1, the case: the default profile has read the whole stream of a payload
\* of one record
C1_StreamRead ==
    /\ eof /\ CONFIG = profiles[DEFAULT_PROFILE]
    /\ enc.input = Data64

\* C1, the other profile: the decoder ends with an exception and writes
\* nothing
C1_OtherProfileRaises ==
    /\ CONFIG = profiles.edge1
    /\ exc = "UnboundLocalError"
    /\ dp.files = <<>>

\* the bit the symbol in wav carries: 1 when the level changes in its middle
WaveBit == IF wav[1] # wav[Len(wav)] THEN 1 ELSE 0

\* the 64 payload bytes of record r of the encoder's (padded) input
RecordOf(r) == SubSeq(enc.data, r * RECORD_LEN + 1, (r + 1) * RECORD_LEN)

\* the encoder has just written a symbol of a checksum byte
ChecksumSymbol == wav # <<>> /\ enc.kind = "chksum"

\* C10: the symbols the encoder writes for the checksum byte of a record
\* are, most significant bit first, the bits of the sum of the record's 64
\* payload bytes modulo 256.
C10_ChecksumBits ==
    ChecksumSymbol
      => WaveBit = ((SumBytes(RecordOf(enc.rec)) % 256)
                       \div Pow2(7 - ((enc.j + 7) % 8))) % 2

\* C10, witness: a 1 is written as the third bit of the checksum of a record
\* whose bytes sum to 2080, which is 32 modulo 256
C10_ChecksumBitOfCarry ==
    /\ ChecksumSymbol
    /\ SumBytes(RecordOf(enc.rec)) = 2080
    /\ enc.chksum = 2080
    /\ enc.j = 3
    /\ WaveBit = 1

(***************************************************************************)
(* SpecEnc: the encoder alone, one write_byte call at a time.              *)
(*                                                                         *)
(* enc is the encoder, wav holds the samples of the latest write_byte call *)
(* and chan is the output: how many write_byte calls have written to it.   *)
(* The decoder's variables stay at their initial values.                   *)
(***************************************************************************)
\* one more pass of the loop of write_byte after the passes that gave w: the
\* encoder after it, and the samples written so far
pass_after(w) ==
    [e |-> write_bit(w.e).e, samples |-> w.samples \o write_bit(w.e).samples]

\* the first n passes of the loop of write_byte (line 72)
RECURSIVE write_passes(_, _)
write_passes(e, n) ==
    IF n = 0 THEN [e |-> e, samples |-> <<>>]
    ELSE CHOOSE r \in { pass_after(w) : w \in { write_passes(e, n - 1) } } :
             TRUE

\* write_byte(b), b being e.b: the 8 passes of the loop
write_byte(e) == write_passes(e, 8)

\* the encoder's inputs: no byte at all, three bytes, one record, one record
\* and a byte, two records, 255 records, and one byte more than 255 records
DataNone == <<>>
Data65 == [x \in 1..65 |-> (x * 3) % 256]
Data255Records == [x \in 1..16320 |-> (x * 5 + (x \div 64)) % 256]
DataTooLong == [x \in 1..16321 |-> 7]
EncInputs == { DataNone, Data3, Data64, DataHigh, Data65, Data128,
               Data255Records, DataTooLong }

InitEnc ==
    /\ CONFIG = profiles[DEFAULT_PROFILE]
    /\ sp = SignalProc_init
    /\ bp = BitProc_init
    /\ dp = DataProc_init
    /\ calls = <<>>
    /\ last = NoCall
    /\ exc = ""
    /\ lister = None
    /\ eof = FALSE
    /\ \E input \in EncInputs : enc = encoder_start(input)
    /\ wav = <<>>
    /\ chan = [written |-> 0]

\* the next write_byte call of the loops of lines 125-150
encoder_write_byte ==
    /\ ~EncoderDone
    /\ \E w \in { write_byte(next_byte(enc)) } :
           /\ enc' = w.e
           /\ wav' = w.samples
    /\ chan' = [written |-> chan.written + 1]
    /\ UNCHANGED <<CONFIG, sp, bp, dp, calls, last, exc, eof, lister>>

NextEnc == encoder_write_byte

SpecEnc == InitEnc /\ [][NextEnc]_vars

(***************************************************************************)
(* Claims on the encoder (SpecEnc)                                         *)
(***************************************************************************)
\* the number of records an input needs: its length over 64, rounded up
RecordsNeeded(input) == (Len(input) + (RECORD_LEN - 1)) \div RECORD_LEN

\* byte idx (from 1) of the input filled up with 0x80
PaddedByte(input, idx) == IF idx <= Len(input) THEN input[idx] ELSE 128

\* the sum of bytes lo .. hi of the input filled up with 0x80
RECURSIVE PaddedSum(_, _, _)
PaddedSum(input, lo, hi) ==
    IF lo > hi THEN 0
    ELSE IF lo = hi THEN PaddedByte(input, lo)
    ELSE PaddedSum(input, lo, (lo + hi) \div 2)
           + PaddedSum(input, (lo + hi) \div 2 + 1, hi)

\* the bit symbol k (0 .. 7) of the samples in wav carries: 1 when the level
\* changes in its middle
SymbolBit(k) ==
    IF wav[k * SYMBOL_LEN + 1] # wav[(k + 1) * SYMBOL_LEN] THEN 1 ELSE 0

\* the byte the 8 symbols in wav carry, most significant bit first
WaveByte ==
    SymbolBit(0) * 128 + SymbolBit(1) * 64 + SymbolBit(2) * 32
      + SymbolBit(3) * 16 + SymbolBit(4) * 8 + SymbolBit(5) * 4
      + SymbolBit(6) * 2 + SymbolBit(7)

\* the bytes of one record copy on the tape: 8 zero bytes, 0xFF, the 64
\* payload bytes, the checksum byte
CopyLen == 8 + 1 + RECORD_LEN + CHKSUM_LEN

\* the number of bytes before the first record copy: the sync and the header
LeadLen == INITIAL_SYNC_LEN + 3

\* the number of bytes on the tape of an input
TapeLen(input) == LeadLen + 2 * CopyLen * RecordsNeeded(input)

\* byte q (from 0) of a copy of record i (from 0) of an input
CopyByte(input, i, q) ==
    IF q < 8 THEN 0
    ELSE IF q = 8 THEN 255
    ELSE IF q < 9 + RECORD_LEN THEN PaddedByte(input, i * RECORD_LEN + (q - 8))
    ELSE PaddedSum(input, i * RECORD_LEN + 1, (i + 1) * RECORD_LEN) % 256

\* byte k (from 1) of the tape of an input: 768 bytes 0x00, 0xFF, N, N, and
\* for each record two copies
TapeByte(input, k) ==
    IF k <= INITIAL_SYNC_LEN THEN 0
    ELSE IF k = INITIAL_SYNC_LEN + 1 THEN 255
    ELSE IF k <= LeadLen THEN RecordsNeeded(input)
    ELSE CopyByte(input, ((k - LeadLen - 1) \div CopyLen) \div 2,
                  (k - LeadLen - 1) % CopyLen)

\* C11: for an input of N records, 1 <= N <= 255, the k-th write_byte call
\* writes byte k of the sequence 768 times 0x00, 0xFF, N, N, and for each
\* record in order, twice, 8 times 0x00, 0xFF, the record's 64 bytes and its
\* checksum byte; the encoder is done exactly when the whole sequence has
\* been written.
C11_EmittedSequence ==
    (RecordsNeeded(enc.input) >= 1 /\ RecordsNeeded(enc.input) <= 255)
      => /\ chan.written <= TapeLen(enc.input)
         /\ chan.written > 0 => WaveByte = TapeByte(enc.input, chan.written)
         /\ EncoderDone <=> chan.written = TapeLen(enc.input)

\* C11, witness: the checksum byte of the second copy of the second of two
\* records has been written as byte 768 + 3 + 2 * 2 * 74, the last one
C11_LastChecksumWritten ==
    /\ enc.input = Data128
    /\ chan.written = 1067
    /\ EncoderDone
    /\ WaveByte = PaddedSum(enc.input, 65, 128) % 256

\* bit k (0 the most significant) of the low 8 bits of b
BitOf(b, k) == ((b % 256) \div Pow2(7 - k)) % 2

\* C12: a write_byte call writes 8 symbols of 32 samples, one for each bit of
\* the byte, most significant bit first: the first 16 samples of a symbol are
\* at the opposite of the level before the symbol, the other 16 are at the
\* level before the symbol for a 1 (a second flip) and stay opposite for a 0;
\* the output level is left at the last sample.
C12_WriteByteSymbols ==
    [][ /\ Len(wav') = 8 * SYMBOL_LEN
        /\ \A k \in 0..7 :
              /\ \A x \in 1..16 :
                    wav'[k * SYMBOL_LEN + x]
                      = 0 - (IF k = 0 THEN enc.level ELSE wav'[k * SYMBOL_LEN])
              /\ \A x \in 17..32 :
                    wav'[k * SYMBOL_LEN + x]
                      = IF BitOf(next_byte(enc).b, k) = 1
                        THEN 0 - wav'[k * SYMBOL_LEN + 1]
                        ELSE wav'[k * SYMBOL_LEN + 1]
        /\ enc'.level = wav'[8 * SYMBOL_LEN]
      ]_vars

\* C12, witness: the data byte 0x03 has been written: six symbols with one
\* level change and two symbols with two
C12_MixedByteWritten ==
    /\ enc.input = Data3
    /\ enc.kind = "data"
    /\ Len(wav) = 8 * SYMBOL_LEN
    /\ WaveByte = 3
    /\ \A k \in 0..5 : wav[k * SYMBOL_LEN + 16] = wav[k * SYMBOL_LEN + 17]
    /\ \A k \in 6..7 : wav[k * SYMBOL_LEN + 16] # wav[k * SYMBOL_LEN + 17]

\* C13: an input that needs more than 255 records ends the encoder before
\* any write_byte call, with nothing written; an input that needs at most 255
\* records is not refused, and when the encoder is done with it the whole
\* tape has been written.
C13_RecordLimit ==
    /\ RecordsNeeded(enc.input) > 255
         => /\ enc.phase = "exit"
            /\ wav = <<>>
            /\ chan.written = 0
    /\ RecordsNeeded(enc.input) <= 255
         => /\ enc.phase # "exit"
            /\ EncoderDone => chan.written = TapeLen(enc.input)

\* C13, witness: the input of 16321 bytes, which needs 256 records, has been
\* refused
C13_TooLongRefused ==
    /\ enc.input = DataTooLong
    /\ enc.phase = "exit"
    /\ chan.written = 0

\* C14: the data the encoder goes on with (after line 96) is its input
\* followed by bytes 0x80 up to the smallest multiple of 64 that is not less
\* than the input's length; an input whose length is a multiple of 64 is left
\* as it is.
C14_Padding ==
    chan.written = 0
      => /\ Len(enc.data) % 64 = 0
         /\ Len(enc.data) >= Len(enc.input)
         /\ Len(enc.data) < Len(enc.input) + 64
         /\ \A x \in 1..Len(enc.input) : enc.data[x] = enc.input[x]
         /\ \A x \in (Len(enc.input) + 1)..Len(enc.data) : enc.data[x] = 128
         /\ Len(enc.input) % 64 = 0 => enc.data = enc.input

\* C14, witness: the input of 65 bytes has been filled up to 128 bytes with
\* 63 bytes 0x80
C14_PaddedToTwoRecords ==
    /\ enc.input = Data65
    /\ chan.written = 0
    /\ Len(enc.data) = 128
    /\ SubSeq(enc.data, 1, 65) = Data65
    /\ enc.data[66] = 128
    /\ enc.data[128] = 128

(***************************************************************************)
(* Claims on the decoder under the profile edge1 (SpecTape)                *)
(***************************************************************************)
\* C15: with a profile whose use_peak is false, once SignalProc has reported
\* an edge (its level has gone up) process_edge has returned without an
\* exception and BitProc has taken the frame of an edge as the time of its
\* last edge.
\* (Stated as the claim has it; the code does not do this.)
C15_EdgeFrameIsTimestamp ==
    (~CONFIG.use_peak /\ sp.level = 1)
      => /\ exc = ""
         /\ bp.last_edge_idx > 0

\* C15, the case: under edge1 the first edge, at frame 32, has ended the
\* decoder in process_edge, BitProc being as it was constructed
C15_FirstEdgeRaises ==
    /\ CONFIG = profiles.edge1
    /\ sp.level = 1
    /\ sp.frame_idx = 32
    /\ exc = "UnboundLocalError"
    /\ bp = BitProc_init

(***************************************************************************)
(* Claims on the end of the input (SpecData)                               *)
(***************************************************************************)
\* DataProc d holds a program that end of input completes: the header was
\* parsed, the record in progress is the last one, its primary copy was
\* accepted, and the program is not marked corrupt
CompleteAtEof(d) ==
    /\ ~d.read_header
    /\ d.rec_idx + 1 = d.rec_cnt
    /\ d.rec_processed
    /\ ~d.data_corrupt

\* C16: at the end of the input the program in progress is written out if
\* and only if the header was parsed, every record before the last was
\* completed, the primary copy of the last record was accepted and the
\* program is not marked corrupt; what is written is the payload of all
\* rec_cnt records; in every other case nothing is written; in all cases
\* every attribute __clear_state assigns is as it is after construction.
C16_EofEmission ==
    last.op = "process_eof"
      => /\ CompleteAtEof(last.before)
              => /\ dp.files = Append(last.before.files, last.before.data)
                 /\ Len(last.before.data) = RECORD_LEN * last.before.rec_cnt
         /\ ~CompleteAtEof(last.before) => dp.files = last.before.files
         /\ dp.buf = <<>> /\ dp.buf_error_mask = <<>>
         /\ dp.read_header /\ dp.rec_cnt = 0 /\ dp.rec_idx = 0
         /\ dp.rec_primary /\ ~dp.rec_processed
         /\ ~dp.data_corrupt /\ dp.data = <<>>

\* C16, witness: the input ended in the secondary copy of the second of two
\* records, after its primary copy was accepted, and the program of 128
\* bytes was written out
C16_WrittenAtEof ==
    /\ last.op = "process_eof"
    /\ last.before.rec_cnt = 2
    /\ last.before.rec_idx = 1
    /\ last.before.rec_processed
    /\ last.before.buf # <<>>
    /\ Len(dp.files) = 1
    /\ Len(dp.files[1]) = 2 * RECORD_LEN
    /\ dp.data = <<>>

(***************************************************************************)
(* SpecTrain: BitProc in TRAINING, given edges at a constant distance.     *)
(*                                                                         *)
(* chan is the signal: its period and the number of edges it has given.    *)
(* Edge k comes at frame k * period, with the peak of the level at the     *)
(* edge, so every level length BitProc computes is the period.             *)
(***************************************************************************)
\* the largest number of edges given
MaxEdges == 402

\* the periods of the signals: around min_bit_len, and the encoder's
Periods == { 9, 10, 11, 12, 13, 21, SYMBOL_LEN }

InitTrain ==
    /\ CONFIG = profiles[DEFAULT_PROFILE]
    /\ sp = SignalProc_init
    /\ bp = BitProc_init
    /\ dp = DataProc_init
    /\ calls = <<>>
    /\ last = NoCall
    /\ exc = ""
    /\ lister = None
    /\ eof = FALSE
    /\ enc = None
    /\ wav = <<>>
    /\ \E T \in Periods : chan = [period |-> T, edges |-> 0]

\* the next edge: BitProc.process_edge while BitProc is in TRAINING
training_edge ==
    /\ Running
    /\ bp.training
    /\ chan.edges < MaxEdges
    /\ \E r \in { BitProc_process_edge(
                      [b |-> bp, d |-> dp, calls |-> <<>>, raised |-> ""],
                      (chan.edges + 1) * chan.period,
                      (chan.edges + 1) * chan.period,
                      chan.edges % 2) } :
           /\ bp' = r.b
           /\ dp' = r.d
           /\ calls' = r.calls
           /\ exc' = r.raised
           /\ last' = IF r.calls = <<>> THEN last ELSE r.calls[Len(r.calls)]
    /\ chan' = [chan EXCEPT !.edges = @ + 1]
    /\ UNCHANGED <<CONFIG, sp, eof, enc, wav, lister>>

NextTrain == training_edge

SpecTrain == InitTrain /\ [][NextTrain]_vars

\* C18: with edges at a constant distance T greater than min_bit_len,
\* training is over once training_threshold level lengths have matched the
\* first one, and the symbol_len it leaves differs from T by less than
\* T * max_bit_diff.
C18_SymbolLenStable ==
    chan.period > CONFIG.min_bit_len
      => /\ chan.edges > CONFIG.training_threshold => ~bp.training
         /\ ~bp.training
              => Abs(bp.symbol_len[1] - chan.period * bp.symbol_len[2])
                       * CONFIG.max_bit_diff[2]
                   < chan.period * bp.symbol_len[2] * CONFIG.max_bit_diff[1]

\* C18, witness: training is over for the period 11, the smallest above
\* min_bit_len, with symbol_len = 4400 / 400
C18_TrainedOnShortestPeriod ==
    /\ chan.period = 11
    /\ chan.edges = 401
    /\ ~bp.training
    /\ bp.resync
    /\ bp.symbol_len = <<4400, 400>>

(***************************************************************************)
(* Claims on BitProc between a resync request and the framing byte         *)
(* (SpecBit)                                                               *)
(***************************************************************************)
\* C20: while BitProc is in RESYNC no bit is counted towards a data byte
\* (bit_cnt stays 0) and an edge handled in RESYNC hands no byte to DataProc;
\* so bit_cnt is 0 whenever BitProc goes from RESYNC to ACTIVE.
\* (Stated as the claim has it; the code does not do this.)
C20_ResyncCountsNoBit ==
    [][ /\ bp'.resync => bp'.bit_cnt = 0
        /\ bp.resync => \A i \in 1..Len(calls') : calls'[i].op # "process_byte"
        /\ (bp.resync /\ ~bp'.resync /\ ~bp'.training) => bp'.bit_cnt = 0
      ]_vars

\* C20, the case: BitProc has gone from RESYNC to ACTIVE with a bit already
\* counted
C20_ActiveEnteredWithBit ==
    /\ ~bp.training /\ ~bp.resync
    /\ bp.bit_cnt = 1
    /\ bp.byte = 255
    /\ last.ret = REQUEST_RESYNC

(***************************************************************************)
(* SpecList: the lister run on an image.                                   *)
(***************************************************************************)
\* the two bytes of a 16-bit number, most significant first
Bytes2(n) == <<(n \div 256) % 256, n % 256>>

\* a line as it lies in the image: the length byte, the tokens, the byte
\* 0x00.  PRINT "HI";  A = 1;  REM Hi;  GOTO 10;  PRINT followed by the byte
\* 0x0a, which is no token and no identifier character;  PRINT "HI" with the
\* byte 0x01 where the end of the line should be
LinePrintHi == <<6, 156, 199, 2, 72, 73, 0>>
LineAssign == <<6, 65, 190, 200, 1, 49, 0>>
LineRem == <<4, 154, 72, 105, 0>>
LineGoto == <<5, 134, 201, 0, 10, 0>>
LineBadToken == <<3, 156, 10, 0>>
LineBadEol == <<6, 156, 199, 2, 72, 73, 1>>
LinePool ==
    { LinePrintHi, LineAssign, LineRem, LineGoto, LineBadToken, LineBadEol }

\* the line of the scenario, with the bytes the scenario gives
LineScenario == <<4, 156, 199, 2, 72, 73, 0>>

\* the total length of the first n of the lines
RECURSIVE LinesLen(_, _)
LinesLen(lines, n) ==
    IF n = 0 THEN 0 ELSE LinesLen(lines, n - 1) + Len(lines[n])

\* the bytes of the lines one after the other
RECURSIVE LineBytes(_, _)
LineBytes(lines, n) ==
    IF n = 0 THEN <<>> ELSE LineBytes(lines, n - 1) \o lines[n]

\* the line table of an image whose line k has the number 10 * k: the
\* entries lie with the numbers going down, and the pointer of an entry is
\* the address of the byte after the length byte of its line, the byte after
\* the table having the address line_table_start + 1
RECURSIVE TableBytes(_, _, _)
TableBytes(lines, start, k) ==
    IF k = 0 THEN <<>>
    ELSE Bytes2(10 * k) \o Bytes2(start + 1 + LinesLen(lines, k - 1) + 1)
           \o TableBytes(lines, start, k - 1)

\* an image: the header with the checksum word chk, the line table and the
\* lines
Image(chk, start, end, lines) ==
    Bytes2(chk) \o Bytes2(start) \o Bytes2(end) \o Bytes2(start + 1 + 64)
      \o TableBytes(lines, start, Len(lines))
      \o LineBytes(lines, Len(lines))

\* an image of well-formed header and table: line_table_end is the address
\* of the first byte of the table
GoodImage(lines) ==
    Image(BitXor(14327, 14327 + 1 - 4 * Len(lines)), 14327,
          14327 + 1 - 4 * Len(lines), lines)

\* the image of the scenario: line_table_start = 0x37F7, line_table_end =
\* 0x37F3, one entry for line 10
ImageScenario == Image(BitXor(14327, 14323), 14327, 14323, <<LineScenario>>)

\* a protected program (bit 15 of the checksum word), an image whose checksum
\* word is wrong, and data shorter than a header
ImageProtected == Image(32768 + BitXor(14327, 14324), 14327, 14324, <<LineRem>>)
ImageBadChecksum == Image(5, 14327, 14324, <<LineRem>>)
ImageShort == <<0, 4, 55>>

\* the largest number of lines of an image
MaxLines == 3

Images ==
    { GoodImage(lines) :
        lines \in UNION { [1..n -> LinePool] : n \in 0..MaxLines } }
      \cup { ImageScenario, ImageProtected, ImageBadChecksum, ImageShort }

InitList ==
    /\ CONFIG = profiles[DEFAULT_PROFILE]
    /\ sp = SignalProc_init
    /\ bp = BitProc_init
    /\ dp = DataProc_init
    /\ calls = <<>>
    /\ last = NoCall
    /\ exc = ""
    /\ eof = FALSE
    /\ enc = None
    /\ wav = <<>>
    /\ chan = None
    /\ \E data \in Images : lister = lister_start(data)

others == <<CONFIG, sp, bp, dp, calls, last, exc, eof, enc, wav, chan>>

list_parse_header ==
    /\ lister.pc = "header"
    /\ lister' = main_parse_header(lister)
    /\ UNCHANGED others

list_parse_line_table ==
    /\ lister.pc = "table"
    /\ lister' = main_parse_line_table(lister)
    /\ UNCHANGED others

list_line ==
    /\ lister.pc = "lines"
    /\ lister' = main_list_line(lister)
    /\ UNCHANGED others

NextList == list_parse_header \/ list_parse_line_table \/ list_line

SpecList == InitList /\ [][NextList]_vars

(***************************************************************************)
(* Claims on the lister (SpecList)                                         *)
(***************************************************************************)
\* the lister has ended: through the end of the program, exit(1) or an
\* exception
ListerEnded == lister.pc \in { "done", "exit", "raised" }

\* what decode_line gives for line number no of the line table
Decoded(no) == decode_line(lister.data, lister.lt[no])

\* the line the lister prints for line number no
Listing(no) == Format5(no) \o <<32>> \o Decoded(no).line

\* the lister has printed the line with number no
Listed(no) == \E i \in 1..Len(lister.out) : lister.out[i] = Listing(no)

\* the image has a line with an invalid token, and every other line decodes
OnlyInvalidTokens ==
    /\ \E no \in DOMAIN lister.lt : Decoded(no).raised = "AttributeError"
    /\ \A no \in DOMAIN lister.lt :
          Decoded(no).raised \in { "", "AttributeError" }

\* C17: when the lister has ended on an image in which lines with an invalid
\* token are the only ones that fail, every line that decodes has been
\* listed, the lines after the failing one too.
\* (Stated as the claim has it; the code does not do this.)
C17_InvalidTokenFailsAlone ==
    (ListerEnded /\ lister.lt # <<>> /\ OnlyInvalidTokens)
      => \A no \in DOMAIN lister.lt : Decoded(no).raised = "" => Listed(no)

\* C17, the case: of the lines 10 PRINT "HI", 20 PRINT <0x0a>, 30 REM Hi the
\* lister has printed line 10 and the beginning of line 20, and has ended
\* with the exception of line 505
C17_ListingCutShort ==
    /\ lister.data = GoodImage(<<LinePrintHi, LineBadToken, LineRem>>)
    /\ lister.pc = "raised"
    /\ lister.raised = "AttributeError"
    /\ lister.out = << <<32, 32, 32, 49, 48, 32,
                         80, 82, 73, 78, 84, 32, 34, 72, 73, 34, 32>>,
                       <<80, 82, 73, 78, 84, 32>> >>
    /\ ~Listed(30)

\* the line   10 PRINT "HI" and a space, as the lister prints it
ListingPrintHi ==
    <<32, 32, 32, 49, 48, 32, 80, 82, 73, 78, 84, 32, 34, 72, 73, 34, 32>>

\* C19 as the scenario states it: the lister accepts the image of
\* line_table_start = 0x37F7, line_table_end = 0x37F3 and the line bytes
\* 04 9C C7 02 48 49 00, and prints "   10 PRINT "HI" ".
\* (A table of 0x37F7 + 1 - 0x37F3 = 5 bytes is refused at line 193, and a
\* length byte of 4 does not reach the end-of-line byte, line 221.)
C19_ScenarioListed ==
    (lister.data = ImageScenario /\ ListerEnded)
      => (lister.pc = "done" /\ lister.out = <<ListingPrintHi>>)

\* C19, amended: for the image of line_table_start = 0x37F7, line_table_end =
\* 0x37F4 and one entry for line 10 that points at the bytes
\* 06 9C C7 02 48 49 00, the lister accepts the image and prints the line
\* number set to the right of 5 columns, a space, and PRINT "HI" followed by
\* a space, and nothing else.
C19_AmendedScenarioListed ==
    (lister.data = GoodImage(<<LinePrintHi>>) /\ ListerEnded)
      => /\ lister.pc = "done"
         /\ lister.raised = ""
         /\ lister.header.line_table_start = 14327
         /\ lister.header.line_table_end = 14324
         /\ DOMAIN lister.lt = { 10 }
         /\ lister.out = <<ListingPrintHi>>

\* C19, the case: the lister has gone through the amended image to its end
C19_AmendedScenarioDone ==
    /\ lister.data = GoodImage(<<LinePrintHi>>)
    /\ lister.pc = "done"
    /\ lister.listed = 10
    /\ Len(lister.out) = 1

(***************************************************************************)
(* Further claims on DataProc (SpecData)                                   *)
(***************************************************************************)
\* the last call brought in the 65th byte of a record copy
CopyCameIn ==
    CopyEvaluated /\ last.op = "process_byte"

\* the byte buffer and the error-mask buffer _process_record then works on
BufEvaluated == Append(last.before.buf, last.val)
MaskEvaluated == Append(last.before.buf_error_mask, last.mask)

\* C21: whenever DataProc evaluates a record copy that came in whole, its
\* error-mask buffer is as long as its byte buffer, 65 entries, so that mask
\* entry i belongs to byte i; the primary copy of the first record included.
\* (Stated as the claim has it; the code does not do this.)
C21_MaskAlignedWithBuf ==
    CopyCameIn
      => /\ Len(BufEvaluated) = RECORD_LEN + CHKSUM_LEN
         /\ Len(MaskEvaluated) = Len(BufEvaluated)

\* C21, the case: the primary copy of the first record is evaluated with the
\* two mask entries of the header bytes still in front of its own, and, the
\* copy failing its checksum, they are retained with it
C21_HeaderMasksKept ==
    /\ CopyCameIn /\ last.before.rec_primary /\ last.before.rec_idx = 0
    /\ last.before.rec_cnt = 2
    /\ Len(BufEvaluated) = RECORD_LEN + CHKSUM_LEN
    /\ Len(MaskEvaluated) = RECORD_LEN + CHKSUM_LEN + 2
    /\ ~ChecksumOK(Copy)
    /\ dp.rec_primary_buf = BufEvaluated
    /\ dp.rec_primary_error_mask = MaskEvaluated

\* the last call brought in the second byte of a header
HeaderCameIn ==
    /\ last.op = "process_byte"
    /\ last.before.read_header
    /\ Len(last.before.buf) = 1

\* rec_idx as it stands at line 278 when the copy has been evaluated
RecIdxAfter ==
    last.before.rec_idx + (IF last.before.rec_primary THEN 0 ELSE 1)

\* what the claim has DataProc answer to the last byte
SignalClaimed ==
    IF HeaderCameIn
    THEN IF last.before.buf[1] = last.val THEN REQUEST_RESYNC ELSE NOTIFY_DONE
    ELSE IF CopyCameIn
    THEN IF RecIdxAfter = last.before.rec_cnt THEN NOTIFY_DONE
         ELSE REQUEST_RESYNC
    ELSE None

\* C22: DataProc answers REQUEST_RESYNC to the byte that completes a valid
\* header and to the byte that completes a record copy, primary or secondary,
\* that does not finish the program; it answers NOTIFY_DONE when rec_idx
\* reaches the record count (and to a header whose bytes differ, C6); it
\* gives no signal for any other byte.
\* (Stated as the claim has it; the code does not do this.)
C22_SignalPerByte ==
    last.op = "process_byte"
      => /\ exc = ""
         /\ last.ret = SignalClaimed

\* C22, the case: the secondary copy of the first of two records came in
\* whole after a primary copy that came in whole, and process_byte has given
\* no answer: it has raised
C22_SecondaryUnanswered ==
    /\ CopyCameIn /\ ~last.before.rec_primary
    /\ last.before.rec_cnt = 2 /\ last.before.rec_idx = 0
    /\ Len(Primary) = RECORD_LEN + CHKSUM_LEN
    /\ last.ret = None
    /\ exc = "NameError"

\* the last call was resync_failed_cb while a record copy was awaited
CopyLost ==
    CopyEvaluated /\ last.op = "resync_failed_cb"

\* the last call left everything of the program as it was but the fields
\* named: the payload, the corrupt flag, the record count
ProgramKept ==
    /\ dp.data = last.before.data
    /\ dp.data_corrupt = last.before.data_corrupt
    /\ dp.rec_cnt = last.before.rec_cnt
    /\ ~dp.read_header
    /\ dp.buf = <<>>

\* C25: resync_failed_cb, called while a header is awaited, returns false and
\* leaves DataProc as it is.  Called while a record copy is awaited, it counts
\* the copy as failed: a lost primary leaves the record open for its
\* secondary, which is appended if it passes the checksum; a lost secondary
\* after an accepted primary leaves the record received; a lost secondary
\* after a primary that was not accepted marks the program corrupt; and it
\* returns true unless the program ended with that copy (rec_idx reached the
\* record count), in which case it returns false.
C25_ResyncFailedCallback ==
    /\ (last.op = "resync_failed_cb" /\ last.before.read_header)
         => /\ last.ret = "False"
            /\ dp = last.before
            /\ exc = ""
    /\ CopyLost
         => /\ exc = ""
            /\ last.ret = (IF RecIdxAfter = last.before.rec_cnt
                           THEN "False" ELSE "True")
            /\ PayloadIs(last.before.data)
    /\ (CopyLost /\ last.ret = "True" /\ last.before.rec_primary)
         => /\ ProgramKept
            /\ ~dp.rec_primary /\ ~dp.rec_processed
            /\ dp.rec_idx = last.before.rec_idx
            /\ dp.rec_primary_buf = <<>>
    /\ (CopyLost /\ last.ret = "True" /\ ~last.before.rec_primary)
         => /\ dp.data = last.before.data
            /\ dp.rec_primary /\ ~dp.rec_processed
            /\ dp.rec_idx = last.before.rec_idx + 1
            /\ dp.data_corrupt =
                 (last.before.data_corrupt \/ ~last.before.rec_processed)
    /\ (CopyLost /\ ~last.before.rec_primary)
         => Emitted = (last.ret = "False" /\ ~last.before.data_corrupt
                         /\ last.before.rec_processed)
    /\ (CopyCameIn /\ ~last.before.rec_primary /\ ~last.before.rec_processed
          /\ Primary = <<>> /\ ChecksumOK(Copy))
         => /\ PayloadIs(last.before.data \o PayloadOf(Copy))
            /\ NotMarkedCorrupt

\* C25, the case: both copies of the first of two records were lost, the
\* callback has marked the program corrupt and has returned true
C25_TwoCopiesLost ==
    /\ CopyLost /\ ~last.before.rec_primary /\ ~last.before.rec_processed
    /\ Primary = <<>>
    /\ last.before.rec_cnt = 2 /\ last.before.rec_idx = 0
    /\ last.ret = "True"
    /\ dp.data_corrupt /\ dp.rec_idx = 1

(***************************************************************************)
(* SpecSync: BitProc and DataProc driven by the edges of tapes on which a  *)
(* sync is late, missing or lost in silence.                               *)
(*                                                                         *)
(* The tapes are played as in SpecBit, every edge being seen.  The pilot   *)
(* of these tapes begins with a byte that is not zero, so that training    *)
(* meets level lengths that do not match.                                  *)
(***************************************************************************)
\* Bounds of the tapes
NoMarkBytes == 810  \* zero bytes of a pilot that no data mark follows

Zeros(n) == [x \in 1..n |-> 0]

\* n bytes of silence
Silent(n) == [x \in 1..n |-> 256]

SyncPilot == <<0, 36, 0>> \o Pilot

\* the sync of a record copy as the encoder writes it, and a copy that
\* passes its checksum
RecordSync == Zeros(8) \o <<255>>
RecordPayload == [x \in 1..RECORD_LEN |-> (x * 7) % 256]
RecordCopy == RecordPayload \o <<SumBytes(RecordPayload) % 256>>

\* a program of one record, whole
TapeWhole ==
    SyncPilot \o <<255, 1, 1>> \o RecordSync \o RecordCopy
              \o RecordSync \o RecordCopy \o Zeros(2)

\* a program of one record whose first copy never comes: after the header
\* the zeros go on beyond the deadline, a data mark follows within the time
\* of the copy given up, and the next data mark follows after that time
TapeSkipped ==
    SyncPilot \o <<255, 1, 1>> \o Zeros(12) \o <<255>> \o Zeros(64)
              \o <<255, 165, 0>>

\* a program of one record whose second copy never comes
TapeLostLast ==
    SyncPilot \o <<255, 1, 1>> \o RecordSync \o RecordCopy \o Zeros(13)

\* a program of n records that falls silent for g byte times within the sync
\* of its first copy
TapeGap(n, g) ==
    SyncPilot \o <<255, n, n>> \o Zeros(2) \o Silent(g) \o Zeros(4)

\* a pilot that no data mark follows
TapeNoMark == Zeros(NoMarkBytes)

SyncTapes ==
    { TapeWhole, TapeSkipped, TapeLostLast, TapeNoMark }
      \cup { TapeGap(n, g) : n \in {1, 2}, g \in {70, 80, 88} }

InitSync ==
    /\ CONFIG = profiles[DEFAULT_PROFILE]
    /\ sp = SignalProc_init
    /\ bp = BitProc_init
    /\ dp = DataProc_init
    /\ calls = <<>>
    /\ last = NoCall
    /\ exc = ""
    /\ lister = None
    /\ eof = FALSE
    /\ enc = None
    /\ wav = <<>>
    /\ \E tape \in SyncTapes :
         chan = [tape |-> tape, k |-> 1, h |-> 0, run_start |-> 0, level |-> 0,
                 dropped |-> 0, bursting |-> FALSE, done |-> 0]

NextSync == DeliverEdge \/ EndOfTape

SpecSync == InitSync /\ [][NextSync]_vars

(***************************************************************************)
(* Claims on BitProc in RESYNC (SpecSync)                                  *)
(***************************************************************************)
\* the three states of BitProc
InTraining(b) == b.training
InResync(b) == ~b.training /\ b.resync
InActive(b) == ~b.training /\ ~b.resync

\* the step hands BitProc the edge the tape is at
Delivered == chan' # chan /\ chan'.dropped = chan.dropped

\* the frame process_edge takes for that edge (lines 416-422): the peak of
\* the level that ends, or the edge when the peak lies far back
FrameIdx ==
    IF (EdgeTime(chan.k, chan.h) - (chan.run_start + PeakLag)) * bp.symbol_len[2]
          > bp.symbol_len[1] * 8
    THEN EdgeTime(chan.k, chan.h)
    ELSE chan.run_start + PeakLag

\* the frame lies beyond b.resync_start_idx + b.resync_max_symbol symbols
PastDeadline(b, frame) ==
    b.resync_start_idx * b.symbol_len[2] + b.resync_max_symbol * b.symbol_len[1]
        < frame * b.symbol_len[2]

\* the edge is at the symbol boundary BitProc expects, before it, or late
EdgeAtBoundary == AtBoundary(bp, FrameIdx, expected_idx_of(bp))
EdgeWithinSymbol == ~EdgeAtBoundary /\ FrameIdx < expected_idx_of(bp)
EdgeLate == ~EdgeAtBoundary /\ FrameIdx > expected_idx_of(bp)

\* C23: BitProc goes from RESYNC to ACTIVE only at a symbol boundary whose
\* bit is 1, when the seven boundary bits before it were 1 as well, and at a
\* frame that is not before resync_start; the byte the boundary bits are
\* collected in starts as 0 when RESYNC starts, takes a bit at every
\* boundary, is kept by an edge within a symbol, and is 0 again after a
\* missed symbol; so a 0xFF that ends before resync_start does not end
\* RESYNC.
C23_ResyncEndsOnMark ==
    [][ Delivered =>
        /\ (InResync(bp) /\ InActive(bp'))
             => /\ EdgeAtBoundary
                /\ bit_of_edges(bp) = 1
                /\ bp.byte % 128 = 127
                /\ bp'.byte = 255
                /\ bp'.resync_start_idx <= FrameIdx
        /\ (~InResync(bp) /\ InResync(bp')) => bp'.byte = 0
        /\ (InResync(bp) /\ InResync(bp') /\ ~PastDeadline(bp, FrameIdx))
             => /\ EdgeAtBoundary
                  => bp'.byte = (2 * bp.byte + bit_of_edges(bp)) % 256
                /\ EdgeWithinSymbol => bp'.byte = bp.byte
                /\ EdgeLate => bp'.byte = 0
        /\ (InResync(bp) /\ InResync(bp') /\ PastDeadline(bp, FrameIdx))
             => bp'.byte \in { bp.byte, 0 }
      ]_vars

\* C23, the case: on the tape whose first copy never comes, the 0xFF within
\* the time of the copy given up has not ended RESYNC, the 0xFF after it
\* has, and the byte that follows it has reached DataProc
C23_LateMarkTaken ==
    /\ chan.tape = TapeSkipped
    /\ InActive(bp)
    /\ last.op = "process_byte" /\ last.val = 165 /\ last.mask = 0
    /\ last.before.buf = <<>> /\ ~last.before.rec_primary

\* the calls are all resync_failed_cb
OnlyCallbacks(cs) == \A i \in 1..Len(cs) : cs[i].op = "resync_failed_cb"

\* how many of the calls returned true
TrueCount(cs) == Cardinality({ i \in 1..Len(cs) : cs[i].ret = "True" })

\* the symbol periods resync_start advances by when a copy is given up
SkipSymbols ==
    MAX_RECORD_SYNC_SYMBOLS + END_OF_SYNC_SYMBOLS + (RECORD_LEN + 1) * 8 + 8

\* BitProc b with resync_start_idx moved on by d frames
StartMoved(b, d) == [b EXCEPT !.resync_start_idx = @ + d]

\* C24: an edge handled in RESYNC makes BitProc call resync_failed_cb exactly
\* when its frame is beyond resync_start + resync_max_symbol symbols.  Every
\* answer true moves resync_start on by SkipSymbols symbol periods (each of
\* the two terms of the sum cut to whole frames) and BitProc stays in RESYNC;
\* the check and the call are repeated as long as the frame is beyond the
\* new resync_start and its deadline.  The answer false ends the calls:
\* BitProc is back in TRAINING with its state cleared.
C24_DeadlineCallback ==
    [][ (Delivered /\ InResync(bp)) =>
          IF ~PastDeadline(bp, FrameIdx)
          THEN calls' = <<>>
          ELSE /\ calls' # <<>>
               /\ OnlyCallbacks(calls')
               /\ \A i \in 1..(Len(calls') - 1) : calls'[i].ret = "True"
               /\ \E moved \in { bp'.resync_start_idx - bp.resync_start_idx } :
                  \E n \in { TrueCount(calls') } :
                    /\ moved * bp.symbol_len[2]
                         <= n * SkipSymbols * bp.symbol_len[1]
                    /\ (moved + 2 * n) * bp.symbol_len[2]
                         >= n * SkipSymbols * bp.symbol_len[1]
                    /\ \A j \in 1..(Len(calls') - 1) :
                         /\ bp.resync_start_idx + j * (moved \div n) < FrameIdx
                         /\ PastDeadline(StartMoved(bp, j * (moved \div n)),
                                         FrameIdx)
               /\ calls'[Len(calls')].ret = "True"
                    => /\ InResync(bp')
                       /\ \/ bp'.resync_start_idx >= FrameIdx
                          \/ ~PastDeadline(bp', FrameIdx)
               /\ calls'[Len(calls')].ret = "False"
                    => /\ InTraining(bp') /\ ~bp'.resync
                       /\ bp'.symbol_len = <<0, 1>>
                       /\ bp'.training_matches = <<>>
                       /\ bp'.training_start = 0 /\ bp'.last_edge_idx = 0
                       /\ bp'.edge_cnt = 0 /\ bp'.edges_within_symbol = 0
                       /\ bp'.bit_cnt = 0 /\ bp'.byte = 0
                       /\ bp'.bit_error_mask = 0
      ]_vars

\* C24, the case: after a silence of 88 byte times both copies of the first
\* of two records were given up at one edge: two calls answered true, and
\* resync_start has advanced by twice 600 symbol periods of 32 frames
C24_TwoCopiesGivenUp ==
    /\ chan.tape = TapeGap(2, 88)
    /\ Len(calls) = 2
    /\ calls[1].op = "resync_failed_cb" /\ calls[1].ret = "True"
    /\ calls[2].op = "resync_failed_cb" /\ calls[2].ret = "True"
    /\ InResync(bp)
    /\ bp.resync_start_idx = 14856 + 2 * 600 * SYMBOL_LEN
    /\ dp.data_corrupt /\ dp.rec_idx = 1

\* DataProc is in its initial program state
AwaitingProgram(d) ==
    /\ d.read_header
    /\ d.buf = <<>> /\ d.buf_error_mask = <<>>
    /\ d.data = <<>>
    /\ d.rec_cnt = 0 /\ d.rec_idx = 0
    /\ d.rec_primary /\ ~d.rec_processed
    /\ ~d.data_corrupt

\* C28: whenever BitProc is in TRAINING, DataProc is in its initial program
\* state: it awaits a header, its byte and error-mask buffers are empty, it
\* holds no payload, its record index is 0 and its corrupt flag is clear.
C28_TrainingMeansNoProgram ==
    InTraining(bp) => AwaitingProgram(dp)

\* C28, the case: BitProc is back in TRAINING after a program whose last copy
\* never came; the program was written out and DataProc holds nothing of it
C28_TrainingAfterProgram ==
    /\ chan.tape = TapeLostLast
    /\ InTraining(bp)
    /\ last.op = "resync_failed_cb" /\ last.ret = "False"
    /\ last.before.data = RecordPayload
    /\ dp.files = <<RecordPayload>>
    /\ AwaitingProgram(dp)

(***************************************************************************)
(* Further claims on BitProc in ACTIVE (SpecBit)                           *)
(***************************************************************************)
\* a call of the sequence was answered NOTIFY_DONE
DoneAnswered(cs) == \E i \in 1..Len(cs) : cs[i].ret = NOTIFY_DONE

\* C29: when DataProc answers NOTIFY_DONE, BitProc ends the handling of that
\* edge in TRAINING with all of its state as at construction (no candidate
\* symbol length, no matches, training start 0, bit, edge and byte counters
\* 0), and no bit is synthesized for the rest of the interval: the answer is
\* the last call of the edge.
\* (Stated as the claim has it; the code does not do this.)
C29_DoneRestoresInitialState ==
    [][ (Delivered /\ DoneAnswered(calls')) =>
          /\ calls'[Len(calls')].ret = NOTIFY_DONE
          /\ InTraining(bp') /\ ~bp'.resync
          /\ bp'.symbol_len = <<0, 1>>
          /\ bp'.training_matches = <<>>
          /\ bp'.training_start = 0
          /\ bp'.last_edge_idx = 0
          /\ bp'.edge_cnt = 0 /\ bp'.edges_within_symbol = 0
          /\ bp'.bit_cnt = 0 /\ bp'.byte = 0 /\ bp'.bit_error_mask = 0
      ]_vars

\* C29, the case: NOTIFY_DONE was the answer to the last byte of this edge,
\* BitProc is in TRAINING with everything else cleared, and its training
\* start is the frame of the edge, not 0
C29_TrainingStartKept ==
    /\ calls # <<>>
    /\ calls[Len(calls)].ret = NOTIFY_DONE
    /\ InTraining(bp)
    /\ bp.symbol_len = <<0, 1>> /\ bp.training_matches = <<>>
    /\ bp.last_edge_idx = 0 /\ bp.edge_cnt = 0
    /\ bp.bit_cnt = 0 /\ bp.byte = 0 /\ bp.bit_error_mask = 0
    /\ bp.training_start > 0

(***************************************************************************)
(* SpecLearn: BitProc in TRAINING, given a signal with one long level.     *)
(*                                                                         *)
(* chan is the signal: its period, the edge that comes half a period late  *)
(* (0 for none; every edge after it is as late), and the number of edges   *)
(* given.  The peak of a level is taken at the edge that ends it.          *)
(***************************************************************************)
\* the largest number of edges given
MaxLearn == 810

\* the periods of the signals: around min_bit_len, and the encoder's
LearnPeriods == { 9, 10, 11, SYMBOL_LEN }

\* the edge that comes late: none, an early one, one just before the
\* training threshold is reached
LateEdges == { 0, 5, 399 }

\* the frame of edge k of signal c
LearnTime(c, k) ==
    k * c.period + (IF c.late # 0 /\ k >= c.late THEN c.period \div 2 ELSE 0)

InitLearn ==
    /\ CONFIG = profiles[DEFAULT_PROFILE]
    /\ sp = SignalProc_init
    /\ bp = BitProc_init
    /\ dp = DataProc_init
    /\ calls = <<>>
    /\ last = NoCall
    /\ exc = ""
    /\ lister = None
    /\ eof = FALSE
    /\ enc = None
    /\ wav = <<>>
    /\ \E T \in LearnPeriods, g \in LateEdges :
         chan = [period |-> T, late |-> g, edges |-> 0]

\* the next edge: BitProc.process_edge while BitProc is in TRAINING
learning_edge ==
    /\ Running
    /\ bp.training
    /\ chan.edges < MaxLearn
    /\ \E r \in { BitProc_process_edge(
                      [b |-> bp, d |-> dp, calls |-> <<>>, raised |-> ""],
                      LearnTime(chan, chan.edges + 1),
                      LearnTime(chan, chan.edges + 1),
                      chan.edges % 2) } :
           /\ bp' = r.b
           /\ dp' = r.d
           /\ calls' = r.calls
           /\ exc' = r.raised
           /\ last' = IF r.calls = <<>> THEN last ELSE r.calls[Len(r.calls)]
    /\ chan' = [chan EXCEPT !.edges = @ + 1]
    /\ UNCHANGED <<CONFIG, sp, eof, enc, wav, lister>>

NextLearn == learning_edge

SpecLearn == InitLearn /\ [][NextLearn]_vars

(***************************************************************************)
(* Claims on BitProc in TRAINING (SpecLearn)                               *)
(***************************************************************************)
\* the level that the next edge ends: its length, and whether that matches
\* the candidate symbol length within the max_bit_diff fraction
LevelLen == LearnTime(chan, chan.edges + 1) - LearnTime(chan, chan.edges)
LevelMatches ==
    Abs(LevelLen * bp.symbol_len[2] - bp.symbol_len[1]) * CONFIG.max_bit_diff[2]
        < bp.symbol_len[1] * CONFIG.max_bit_diff[1]

\* with the next edge the matches reach training_threshold
ThresholdReached ==
    LevelMatches /\ Len(bp.training_matches) + 1 = CONFIG.training_threshold

\* the candidate symbol length exceeds min_bit_len
CandidateLongEnough ==
    bp.symbol_len[1] > CONFIG.min_bit_len * bp.symbol_len[2]

\* C30: an edge handled in TRAINING ends TRAINING exactly when its level is
\* the one with which the consecutive matches of the candidate symbol length
\* reach training_threshold and the candidate exceeds min_bit_len, and
\* BitProc is in RESYNC then; a level that matches adds one match otherwise;
\* a level that does not match empties the match list and is the new
\* candidate.
C30_TrainingLeftOnThreshold ==
    [][ (InTraining(bp) /\ chan' # chan) =>
          /\ ~InTraining(bp') <=> (ThresholdReached /\ CandidateLongEnough)
          /\ ~InTraining(bp') => InResync(bp')
          /\ (LevelMatches /\ InTraining(bp'))
               => /\ Len(bp'.training_matches) = Len(bp.training_matches) + 1
                  /\ bp'.symbol_len = bp.symbol_len
          /\ ~LevelMatches
               => /\ InTraining(bp')
                  /\ bp'.training_matches = <<>>
                  /\ bp'.symbol_len = <<LevelLen, 1>>
          /\ calls' = <<>>
      ]_vars

\* C30, the case: a level half a period too long came when 397 levels had
\* matched; it and the level after it emptied the match list, and TRAINING
\* was left for RESYNC 400 matches later
C30_TrainedAfterLongLevel ==
    /\ chan.period = 11 /\ chan.late = 399
    /\ chan.edges = 800
    /\ InResync(bp)
    /\ bp.symbol_len = <<4400, 400>>

\* the frame of the edge lies k whole symbol periods after the symbol
\* boundary BitProc expects, within the boundary tolerance
LateBy(k) ==
    Abs((FrameIdx - expected_idx_of(bp)) * bp.symbol_len[2]
           - k * bp.symbol_len[1]) * CONFIG.max_bit_diff[2]
        < bp.symbol_len[1] * CONFIG.max_bit_diff[1]

\* the bits BitProc has shifted in at this edge: eight for every byte handed
\* to DataProc, and the change of the bit counter
ShiftedBits == 8 * Len(calls') + bp'.bit_cnt - bp.bit_cnt

\* the error mask after the last bit shifted in at this edge: the mask handed
\* over with the byte that was answered NOTIFY_DONE, or BitProc's
ShiftedMask ==
    IF DoneAnswered(calls') THEN calls'[Len(calls')].mask
    ELSE bp'.bit_error_mask

\* k flagged bits and then an unflagged one were shifted in at this edge
GapCounted(k) ==
    /\ ShiftedBits = k + 1
    /\ ShiftedMask % Pow2(k + 1) = Pow2(k + 1) - 2

\* the byte that one of the k synthesized bits completed was answered
\* NOTIFY_DONE
DoneWithinGap(k) ==
    /\ 8 - bp.bit_cnt <= k
    /\ calls' # <<>>
    /\ calls'[1].ret = NOTIFY_DONE

\* C26, as the claim has it: an edge handled in ACTIVE whose frame lies k
\* whole symbol periods (k >= 1) after the expected boundary makes BitProc
\* shift in k bits flagged in the error mask and then one unflagged bit.
C26_GapCountedPerSymbol ==
    [][ (Delivered /\ InActive(bp) /\ exc' = "") =>
          \A k \in 1..7 : LateBy(k) => GapCounted(k)
      ]_vars

\* C26, amended: an edge handled in ACTIVE whose frame lies k whole symbol
\* periods (k >= 1) after the expected boundary makes BitProc shift in k bits
\* flagged in the error mask and then one unflagged bit, unless the byte that
\* one of the k flagged bits completes is answered NOTIFY_DONE: then that bit
\* is the last one shifted in, and BitProc is in TRAINING.
C26_GapCountedUnlessDone ==
    [][ (Delivered /\ InActive(bp) /\ exc' = "") =>
          \A k \in 1..7 :
            LateBy(k) =>
              IF DoneWithinGap(k)
              THEN /\ ShiftedBits = 8 - bp.bit_cnt
                   /\ Len(calls') = 1
                   /\ calls'[1].mask % 2 = 1
                   /\ InTraining(bp')
              ELSE GapCounted(k)
      ]_vars

\* C26, the case: two edges of the tape were lost, and the edge that showed
\* it has been handled: two flagged bits and an unflagged one are the last
\* three of the error mask, and BitProc is still in ACTIVE
C26_TwoSymbolsSynthesized ==
    /\ chan.dropped = 2
    /\ InActive(bp)
    /\ bp.bit_cnt >= 3
    /\ bp.bit_error_mask % 8 = 6

\* how far the frame of the edge lies beyond the boundary BitProc expects,
\* and the boundary tolerance, both in units of 1 / (symbol_len[2] *
\* max_bit_diff[2]) frames
Lateness ==
    (FrameIdx - expected_idx_of(bp)) * bp.symbol_len[2] * CONFIG.max_bit_diff[2]
Tolerance == bp.symbol_len[1] * CONFIG.max_bit_diff[1]
SymbolUnits == bp.symbol_len[1] * CONFIG.max_bit_diff[2]

\* the symbols that have gone by without an edge at their boundary
MissedSymbols ==
    IF Lateness < Tolerance THEN 0
    ELSE CHOOSE j \in 1..16 :
           /\ Lateness - j * SymbolUnits < Tolerance
           /\ \A i \in 1..(j - 1) : Lateness - i * SymbolUnits >= Tolerance

\* the edge is at a symbol boundary, the expected one or a later one
AtSomeBoundary == Abs(Lateness - MissedSymbols * SymbolUnits) < Tolerance

\* the bits due at this edge: one for every missed symbol, and one for the
\* boundary the edge is at
BitsDue == MissedSymbols + (IF AtSomeBoundary THEN 1 ELSE 0)

\* the first m bits due at this edge, earliest first, as a number: the first
\* bit is what the edges within the symbol spell, the others are 0
FirstBits(m) == bit_of_edges(bp) * Pow2(m - 1)

\* the flags of the first m bits due at this edge, as a number: set for the
\* bits of the missed symbols
FirstFlags(m) ==
    IF m <= MissedSymbols THEN Pow2(m) - 1
    ELSE Pow2(m) - Pow2(m - MissedSymbols)

\* C27: in ACTIVE, process_byte is called once for every 8 bits shifted in,
\* with the earliest of the 8 bits in bit 7 of the value and mask bit i set
\* exactly when bit i of the value was synthesized; the bit counter is 0 when
\* ACTIVE is entered, stays in 0..7, restarts at 0 with each delivery and
\* counts the bits shifted in in ACTIVE since.
\* (Stated as the claim has it; the code does not do this.)
C27_ByteEveryEightBits ==
    [][ Delivered =>
        /\ (~InActive(bp) /\ InActive(bp')) => bp'.bit_cnt = 0
        /\ (InActive(bp) /\ exc' = "") =>
             \E n \in { BitsDue } : \E m \in { 8 - bp.bit_cnt } :
               /\ bp.bit_cnt \in 0..7 /\ bp'.bit_cnt \in 0..7
               /\ n < m => /\ calls' = <<>>
                           /\ bp'.bit_cnt = bp.bit_cnt + n
               /\ n >= m
                    => /\ Len(calls') = 1
                       /\ calls'[1].op = "process_byte"
                       /\ calls'[1].val
                            = (bp.byte * Pow2(m) + FirstBits(m)) % 256
                       /\ calls'[1].mask
                            = (bp.bit_error_mask * Pow2(m) + FirstFlags(m)) % 256
                       /\ calls'[1].ret = None
                            => InActive(bp') /\ bp'.bit_cnt = n - m
                       /\ calls'[1].ret = REQUEST_RESYNC
                            => InResync(bp') /\ bp'.bit_cnt = 0
                       /\ calls'[1].ret = NOTIFY_DONE
                            => InTraining(bp') /\ bp'.bit_cnt = 0
      ]_vars

\* C27, the case: after the 0xFF that ended RESYNC seven bits of the byte
\* 165 were shifted in, and a byte was handed to DataProc as the first of the
\* record copy: 210, the last bit of the 0xFF and then the seven bits
C27_ByteAfterSevenBits ==
    /\ chan.tape = TapeMismatch
    /\ last.op = "process_byte"
    /\ ~last.before.read_header /\ last.before.buf = <<>>
    /\ last.val = 210
    /\ bp.bit_cnt = 0

(***************************************************************************)
(* SpecDrift: BitProc in TRAINING, given a signal whose first level has    *)
(* another length than the levels after it.                                *)
(*                                                                         *)
(* chan is the signal: the length of its first level, the length of every  *)
(* later level, and the number of edges given.  The peak of a level is     *)
(* taken at the edge that ends it.                                         *)
(***************************************************************************)
\* the largest number of edges given
MaxDrift == 403

\* the lengths of the first level, and of the levels after it
FirstLevels == { 11, 12, 13, SYMBOL_LEN }
LaterLevels == { 9, 10, 11, 12, 13, SYMBOL_LEN }

\* the frame of edge k of signal c (k >= 1)
DriftTime(c, k) == c.first + (k - 1) * c.rest

InitDrift ==
    /\ CONFIG = profiles[DEFAULT_PROFILE]
    /\ sp = SignalProc_init
    /\ bp = BitProc_init
    /\ dp = DataProc_init
    /\ calls = <<>>
    /\ last = NoCall
    /\ exc = ""
    /\ lister = None
    /\ eof = FALSE
    /\ enc = None
    /\ wav = <<>>
    /\ \E f \in FirstLevels, r \in LaterLevels :
         chan = [first |-> f, rest |-> r, edges |-> 0]

\* the next edge: BitProc.process_edge while BitProc is in TRAINING
drifting_edge ==
    /\ Running
    /\ bp.training
    /\ chan.edges < MaxDrift
    /\ \E r \in { BitProc_process_edge(
                      [b |-> bp, d |-> dp, calls |-> <<>>, raised |-> ""],
                      DriftTime(chan, chan.edges + 1),
                      DriftTime(chan, chan.edges + 1),
                      chan.edges % 2) } :
           /\ bp' = r.b
           /\ dp' = r.d
           /\ calls' = r.calls
           /\ exc' = r.raised
           /\ last' = IF r.calls = <<>> THEN last ELSE r.calls[Len(r.calls)]
    /\ chan' = [chan EXCEPT !.edges = @ + 1]
    /\ UNCHANGED <<CONFIG, sp, eof, enc, wav, lister>>

NextDrift == drifting_edge

SpecDrift == InitDrift /\ [][NextDrift]_vars

(***************************************************************************)
(* Claims on the symbol length (SpecDrift, SpecSync)                       *)
(***************************************************************************)
\* C31: the symbol_len that BitProc holds once TRAINING is over, the mean of
\* the levels that matched, is greater than min_bit_len.
\* (Stated as the claim has it; the code does not do this.)
C31_SymbolLenAboveMin ==
    ~InTraining(bp)
      => bp.symbol_len[1] > CONFIG.min_bit_len * bp.symbol_len[2]

\* C31, the case: after a first level of 11 frames, 400 levels of 9 frames
\* have matched it, and TRAINING is over with symbol_len = 3600 / 400
C31_TrainedBelowMin ==
    /\ chan.first = 11 /\ chan.rest = 9
    /\ chan.edges = 401
    /\ InResync(bp)
    /\ bp.symbol_len = <<3600, 400>>

\* C32: no edge handled in RESYNC or ACTIVE changes symbol_len: as long as
\* BitProc does not return to TRAINING, symbol_len keeps the value that
\* TRAINING left.
C32_SymbolLenKept ==
    [][ (~InTraining(bp) /\ ~InTraining(bp'))
          => bp'.symbol_len[1] * bp.symbol_len[2]
               = bp.symbol_len[1] * bp'.symbol_len[2]
      ]_vars

\* C32, the case: BitProc has been through RESYNC after the header and after
\* the primary copy of the record and is in ACTIVE within the secondary
\* copy, with the symbol_len = 12800 / 400 that TRAINING left
C32_SecondCopyWithSameLen ==
    /\ chan.tape = TapeWhole
    /\ InActive(bp)
    /\ ~dp.read_header /\ ~dp.rec_primary
    /\ Len(dp.buf) = 3
    /\ bp.symbol_len = <<12800, 400>>

(***************************************************************************)
(* SpecGap: the handling of one edge that comes after a silence, one call  *)
(* of _process_symbol_active or _process_symbol_resync at a time.          *)
(*                                                                         *)
(* BitProc and DataProc start in a state of SpecSync.  chan holds the      *)
(* silence and the position within process_edge: mode is the handler that  *)
(* process_edge has chosen, pending says that a call of it is still to be  *)
(* made, with frame and level_len as its arguments, and depth counts the   *)
(* calls already made for this edge.                                       *)
(***************************************************************************)
\* CPython's recursion limit (sys.getrecursionlimit(), which the decoder
\* never changes), and the frames on the stack when process_edge calls a
\* handler: the module, SignalProc.process_sample, BitProc.process_edge
RecursionLimit == 1000
StackBase == 3

\* the silences, in symbol periods, that end within a record copy and
\* within RESYNC, and the record counts of the header
ActiveGaps == { 10, 600, 1100 }
ResyncGaps == { 100, 1300, 3000 }
GapRecCnts == { 1, 2 }

\* the symbol length TRAINING leaves on a clean pilot tone
TrainedLen == <<12800, 400>>

\* DataProc after the header n, n
AfterHeader(n) ==
    [DataProc_init EXCEPT !.read_header = FALSE,
                          !.buf_error_mask = <<0, 0>>,
                          !.rec_cnt = n]

\* BitProc in RESYNC after the header, the edge at frame 14880 handled
ResyncAfterHeader ==
    [BitProc_init EXCEPT !.training = FALSE,
                         !.resync = TRUE,
                         !.symbol_len = TrainedLen,
                         !.last_edge_idx = 14856,
                         !.training_start = 14856,
                         !.resync_start_idx = 14856,
                         !.resync_max_symbol =
                             MAX_RECORD_SYNC_SYMBOLS + END_OF_SYNC_SYMBOLS + 8]

\* BitProc in ACTIVE after the 0xFF of the first record copy, the edge at
\* frame 17184 handled
ActiveAfterMark ==
    [ResyncAfterHeader EXCEPT !.resync = FALSE,
                              !.last_edge_idx = 17160,
                              !.training_start = 17160,
                              !.byte = 255]

InitGap ==
    /\ CONFIG = profiles[DEFAULT_PROFILE]
    /\ sp = SignalProc_init
    /\ calls = <<>>
    /\ last = NoCall
    /\ exc = ""
    /\ lister = None
    /\ eof = FALSE
    /\ enc = None
    /\ wav = <<>>
    /\ \E n \in GapRecCnts, m \in { "active", "resync" } :
       \E g \in IF m = "active" THEN ActiveGaps ELSE ResyncGaps :
         /\ dp = AfterHeader(n)
         /\ bp = IF m = "active" THEN ActiveAfterMark ELSE ResyncAfterHeader
         /\ chan = [mode |-> m, gap |-> g,
                    run_start |-> IF m = "active" THEN 17184 ELSE 14880,
                    pending |-> FALSE, handled |-> FALSE,
                    frame |-> 0, level_len |-> 0, depth |-> 0]

\* process_edge up to the call of the handler (lines 415-428): the edge
\* that ends the silence
edge_arrives ==
    /\ Running
    /\ ~chan.pending /\ ~chan.handled
    /\ \E edge_idx \in { chan.run_start + (chan.gap + 1) * SYMBOL_LEN } :
       \E peak_idx \in { chan.run_start + PeakLag } :
       \E frame_idx \in { IF (edge_idx - peak_idx) * bp.symbol_len[2]
                               > bp.symbol_len[1] * 8
                          THEN edge_idx ELSE peak_idx } :
         /\ chan' = [chan EXCEPT !.pending = TRUE, !.handled = TRUE,
                                 !.frame = frame_idx,
                                 !.level_len = frame_idx - bp.last_edge_idx]
         /\ bp' = [bp EXCEPT !.last_edge_idx = frame_idx]
    /\ calls' = <<>>
    /\ UNCHANGED <<CONFIG, sp, dp, last, exc, eof, enc, wav, lister>>

\* one call of _process_symbol_active without the call it makes of itself;
\* again says whether it makes that call (lines 639-641)
active_once(st, frame_idx) ==
    LET expected_idx == expected_idx_of(st.b)
        at_boundary == AtBoundary(st.b, frame_idx, expected_idx)
        s1 == shift_bit(st, frame_idx, bit_of_edges(st.b),
                        IF at_boundary THEN 0 ELSE 1, ~at_boundary)
    IN  IF ~at_boundary /\ frame_idx < expected_idx
        THEN [st |-> [st EXCEPT !.b.edges_within_symbol = @ + 1],
              again |-> FALSE]
        ELSE IF s1.raised # ""
        THEN [st |-> [b |-> s1.b, d |-> s1.d, calls |-> s1.calls,
                      raised |-> s1.raised],
              again |-> FALSE]
        ELSE [st |-> [b |-> IF CONFIG.continues_resync
                            THEN [s1.b EXCEPT
                                    !.training_start =
                                        IF s1.recurse THEN expected_idx
                                        ELSE frame_idx,
                                    !.edge_cnt = 0]
                            ELSE s1.b,
                      d |-> s1.d, calls |-> s1.calls, raised |-> ""],
              again |-> s1.recurse]

\* one call of _process_symbol_resync without the call it makes of itself;
\* again says whether it makes that call (lines 492-493)
resync_once(st, frame_idx, level_len) ==
    LET b == st.b
        r == DataProc_resync_failed_cb(st.d)
        called == Append(st.calls,
                     [op |-> "resync_failed_cb", val |-> 0, mask |-> 0,
                      ret |-> IF r.ret THEN "True" ELSE "False",
                      before |-> st.d])
        skipped ==
            [b EXCEPT !.resync_start_idx =
                @ + IntTrunc((MAX_RECORD_SYNC_SYMBOLS + END_OF_SYNC_SYMBOLS
                                + (RECORD_LEN + CHKSUM_LEN) * 8)
                               * b.symbol_len[1], b.symbol_len[2])
                  + IntTrunc(8 * b.symbol_len[1], b.symbol_len[2])]
    IN  IF ~PastDeadline(b, frame_idx)
        THEN [st |-> [st EXCEPT !.b = resync_symbol(b, frame_idx, level_len)],
              again |-> FALSE]
        ELSE IF r.raised # ""
        THEN [st |-> [st EXCEPT !.d = r.d, !.calls = called,
                                !.raised = r.raised],
              again |-> FALSE]
        ELSE IF r.ret
        THEN [st |-> [st EXCEPT !.b = skipped, !.d = r.d, !.calls = called],
              again |-> skipped.resync_start_idx < frame_idx]
        ELSE [st |-> [st EXCEPT !.b = BitProc_clear_state(b), !.d = r.d,
                                !.calls = called],
              again |-> FALSE]

\* the call would take the stack beyond the recursion limit
StackExhausted == StackBase + chan.depth + 1 > RecursionLimit

\* the call raises RecursionError, which nothing in the handlers catches
raise_recursion_error ==
    /\ exc' = "RecursionError"
    /\ chan' = [chan EXCEPT !.pending = FALSE]
    /\ calls' = <<>>
    /\ UNCHANGED <<bp, dp, last>>

\* what a call of a handler leaves: r is its result
call_returns(r, level_len) ==
    /\ bp' = r.st.b
    /\ dp' = r.st.d
    /\ calls' = r.st.calls
    /\ exc' = r.st.raised
    /\ last' = IF r.st.calls = <<>> THEN last
               ELSE r.st.calls[Len(r.st.calls)]
    /\ chan' = [chan EXCEPT !.pending = r.again,
                            !.depth = @ + 1,
                            !.level_len = level_len]

\* a call of _process_symbol_active: by process_edge (line 434), or by
\* itself with the rest of the level (lines 639-641)
active_pass ==
    /\ Running
    /\ chan.pending /\ chan.mode = "active"
    /\ IF StackExhausted THEN raise_recursion_error
       ELSE \E r \in { active_once([b |-> bp, d |-> dp, calls |-> <<>>,
                                    raised |-> ""], chan.frame) } :
              call_returns(r, RoundHalfEven(
                                  chan.level_len * bp.symbol_len[2]
                                      - bp.symbol_len[1],
                                  bp.symbol_len[2]))
    /\ UNCHANGED <<CONFIG, sp, eof, enc, wav, lister>>

\* a call of _process_symbol_resync: by process_edge (line 432), or by
\* itself after a copy was given up (lines 492-493)
resync_pass ==
    /\ Running
    /\ chan.pending /\ chan.mode = "resync"
    /\ IF StackExhausted THEN raise_recursion_error
       ELSE \E r \in { resync_once([b |-> bp, d |-> dp, calls |-> <<>>,
                                    raised |-> ""],
                                   chan.frame, chan.level_len) } :
              call_returns(r, chan.level_len)
    /\ UNCHANGED <<CONFIG, sp, eof, enc, wav, lister>>

NextGap == edge_arrives \/ active_pass \/ resync_pass

SpecGap == InitGap /\ [][NextGap]_vars

\* a handler that was called runs: the interpreter does not stop on its own
SpecGapFair == SpecGap /\ WF_vars(NextGap)

(***************************************************************************)
(* Claim on the end of the handling of an edge (SpecGapFair)               *)
(***************************************************************************)
\* the record copies DataProc has counted
CopiesCounted(d) == 2 * d.rec_idx + (IF d.rec_primary THEN 0 ELSE 1)

\* the symbol boundary BitProc expects has not yet come up to the frame of
\* the edge that is being handled
BoundaryBehind ==
    /\ ~InTraining(bp)
    /\ ~AtBoundary(bp, chan.frame, expected_idx_of(bp))
    /\ expected_idx_of(bp) < chan.frame

\* the handling of the edge is over and nothing of it is left undone
HandlingOver ==
    /\ ~chan.pending
    /\ exc = ""
    /\ chan.mode = "active" => ~BoundaryBehind

\* C33: the handling of an edge ends.  In ACTIVE every call that is followed
\* by another moves the expected boundary on by one symbol period, and the
\* calls end when the boundary has come up to the edge (or DataProc has
\* answered NOTIFY_DONE); in RESYNC every call that is followed by another
\* has made DataProc count one more record copy, and not yet all of them.
\* (Stated as the claim has it; the code does not do this.)
C33_EdgeHandlingEnds ==
    /\ [][ (chan.pending /\ chan'.pending) =>
             /\ chan.mode = "active"
                  => Abs((expected_idx_of(bp') - expected_idx_of(bp))
                            * bp.symbol_len[2] - bp.symbol_len[1])
                       <= bp.symbol_len[2]
             /\ chan.mode = "resync"
                  => /\ CopiesCounted(dp') = CopiesCounted(dp) + 1
                     /\ CopiesCounted(dp') < 2 * dp.rec_cnt
         ]_vars
    /\ chan.pending ~> HandlingOver

\* C33, the case: after a silence of 1100 symbol periods within a record
\* copy the calls of _process_symbol_active have filled the stack, and the
\* handling of the edge has ended in RecursionError with the expected
\* boundary still behind the edge
C33_StackFilled ==
    /\ chan.mode = "active" /\ chan.gap = 1100
    /\ exc = "RecursionError"
    /\ chan.depth = RecursionLimit - StackBase
    /\ BoundaryBehind

(***************************************************************************)
(* SpecSignal: SignalProc given one sample at a time.                      *)
(*                                                                         *)
(* chan is the input so far: the samples, the frames at which SignalProc   *)
(* reported an edge, and the peak frame it passed to process_edge with     *)
(* each (line 717).  Sample i of the input has frame i - 1.                *)
(***************************************************************************)
\* the largest number of samples given
MaxSamples == 7

\* the values a sample takes
SampleValues == { -200, -100, 100, 200 }

InitSignal ==
    /\ CONFIG = profiles[DEFAULT_PROFILE]
    /\ sp = SignalProc_init
    /\ bp = BitProc_init
    /\ dp = DataProc_init
    /\ calls = <<>>
    /\ last = NoCall
    /\ exc = ""
    /\ lister = None
    /\ eof = FALSE
    /\ enc = None
    /\ wav = <<>>
    /\ chan = [samples |-> <<>>, edges |-> <<>>, peaks |-> <<>>]

\* the decoder's loop body (line 837): sig_proc.process_sample(sample)
sample_in ==
    /\ Running
    /\ Len(chan.samples) < MaxSamples
    /\ \E sample \in SampleValues :
       \E r \in { SignalProc_process_sample(
                      [s |-> sp, b |-> bp, d |-> dp, calls |-> <<>>,
                       raised |-> ""], sample) } :
           /\ sp' = r.s
           /\ bp' = r.b
           /\ dp' = r.d
           /\ calls' = r.calls
           /\ exc' = r.raised
           /\ last' = IF r.calls = <<>> THEN last ELSE r.calls[Len(r.calls)]
           /\ chan' = [samples |-> Append(chan.samples, sample),
                       edges |-> IF r.s.level # sp.level
                                 THEN Append(chan.edges, sp.frame_idx)
                                 ELSE chan.edges,
                       peaks |-> IF r.s.level # sp.level
                                 THEN Append(chan.peaks, r.s.peak_idx)
                                 ELSE chan.peaks]
    /\ UNCHANGED <<CONFIG, eof, enc, wav, lister>>

NextSignal == sample_in

SpecSignal == InitSignal /\ [][NextSignal]_vars

(***************************************************************************)
(* Claim on the peak SignalProc tracks (SpecSignal)                        *)
(***************************************************************************)
\* the step is a sample on which SignalProc reports an edge
EdgeEmitted == sp'.level # sp.level

\* the sample of frame f
SampleAt(c, f) == c.samples[f + 1]

\* sample x is more extreme than sample y in a run of the level
MoreExtreme(level, x, y) == IF level = 1 THEN x > y ELSE x < y

\* the frame of the most extreme sample of the frames lo .. hi, a run of the
\* level (the first one, if there are several)
RunPeakIdx(c, lo, hi, level) ==
    CHOOSE f \in lo..hi :
      /\ \A g \in lo..hi : ~MoreExtreme(level, SampleAt(c, g), SampleAt(c, f))
      /\ \A g \in lo..(f - 1) :
           MoreExtreme(level, SampleAt(c, f), SampleAt(c, g))

\* C34: after a sample on which an edge is emitted the tracked peak is that
\* sample and peak_idx is its frame; and the peak_idx reported with an edge
\* is the frame of the most extreme sample of the run that started with the
\* edge before, the sample of that edge included.
\* (Stated as the claim has it; the code does not do this.)
C34_PeakRestartsAtEdge ==
    [][ EdgeEmitted =>
          /\ sp'.peak = SampleAt(chan', sp.frame_idx)
          /\ sp'.peak_idx = sp.frame_idx
          /\ chan.edges # <<>>
               => chan'.peaks[Len(chan'.peaks)]
                    = RunPeakIdx(chan, chan.edges[Len(chan.edges)],
                                 sp.frame_idx - 1, sp.level)
      ]_vars

\* C34, the case: an edge was reported at the last sample, and the tracked
\* peak is still the peak of the run that the edge ended, not that sample
C34_PeakOfEndedRun ==
    /\ chan.edges # <<>>
    /\ chan.edges[Len(chan.edges)] = sp.frame_idx - 1
    /\ sp.peak # SampleAt(chan, sp.frame_idx - 1)
    /\ sp.peak_idx < sp.frame_idx - 1

(***************************************************************************)
(* Claim on the record count of the header (SpecEnc)                       *)
(***************************************************************************)
\* C35: the encoder never writes a header whose record count is 0: it either
\* ends before anything is written, or the record count written twice after
\* the 0xFF of the header is in 1..255, and when the encoder is done it has
\* written that many pairs of record copies after the header.
\* (Stated as the claim has it; the code does not do this.)
C35_RecordCountNotZero ==
    enc.phase # "exit"
      => /\ enc.kind = "nrecords"
              => /\ WaveByte \in 1..255
                 /\ WaveByte = enc.nrecords
         /\ EncoderDone
              => /\ enc.nrecords \in 1..255
                 /\ chan.written = LeadLen + enc.nrecords * 2 * CopyLen

\* C35, the case: for the input of no bytes the encoder has written the sync,
\* the 0xFF and the record count 0 twice, and is done
C35_EmptyHeaderWritten ==
    /\ enc.input = DataNone
    /\ enc.phase # "exit"
    /\ enc.kind = "nrecords"
    /\ WaveByte = 0
    /\ chan.written = LeadLen
    /\ EncoderDone

(***************************************************************************)
(* SpecTable: the lister on images whose header gives a line table length  *)
(* that need not be the length of the table that follows.                  *)
(***************************************************************************)
\* the most lines of such an image
MaxTableLines == 2

\* the line table lengths the header gives
TableLens == (0 - 8)..12

\* an image whose header gives the line table length len
\* (line_table_end = line_table_start + 1 - len, the checksum word right),
\* followed by the table and the bytes of the lines
TableImage(len, lines) ==
    Image(BitXor(14327, 14327 + 1 - len), 14327, 14327 + 1 - len, lines)

TableImages ==
    { TableImage(len, lines) :
        len \in TableLens,
        lines \in UNION { [1..n -> LinePool] : n \in 0..MaxTableLines } }

InitTable ==
    /\ CONFIG = profiles[DEFAULT_PROFILE]
    /\ sp = SignalProc_init
    /\ bp = BitProc_init
    /\ dp = DataProc_init
    /\ calls = <<>>
    /\ last = NoCall
    /\ exc = ""
    /\ eof = FALSE
    /\ enc = None
    /\ wav = <<>>
    /\ chan = None
    /\ \E data \in TableImages : lister = lister_start(data)

SpecTable == InitTable /\ [][NextList]_vars

(***************************************************************************)
(* Claim on the line table length (SpecTable)                              *)
(***************************************************************************)
\* the line table length the header of the image gives
TableLen(l) == Word(l.data, 2) + 1 - Word(l.data, 4)

\* the lister went on to list the image: parse_line_table returned
ImageAccepted(l) == l.pc \in {"lines", "done"} \/ l.listed >= 0

\* C36: the lister accepts an image only if its line table length,
\* line_table_start + 1 - line_table_end, is a positive multiple of 4; with a
\* length of zero or less it ends with an error and does not list an empty
\* program.
\* (Stated as the claim has it; the code does not do this.)
C36_TableLenPositive ==
    /\ ImageAccepted(lister)
         => TableLen(lister) > 0 /\ TableLen(lister) % 4 = 0
    /\ (lister.pc \notin {"header", "table"} /\ TableLen(lister) <= 0)
         => lister.pc = "exit"

\* C36, the case: an image whose header gives the line table length -4 has
\* been listed as an empty program
C36_NegativeLenListed ==
    /\ TableLen(lister) = 0 - 4
    /\ lister.pc = "done"
    /\ lister.lt = <<>>
    /\ lister.out = <<>>

(***************************************************************************)
(* SpecIdent: the lister on images of one line, the line made of           *)
(* characters of identifiers and the token of '='.                         *)
(*                                                                         *)
(* chan is the body of the line: the bytes between its length byte and its *)
(* end byte.                                                               *)
(***************************************************************************)
\* the most bytes of the body of the line
MaxBody == 3

\* the bytes of a body: A, z, 1, $, @, _, [, ], \ and the token 0xbe
BodyBytes == { 65, 122, 49, 36, 64, 95, 91, 93, 92, 190 }

Bodies == UNION { [1..n -> BodyBytes] : n \in 1..MaxBody }

\* the line of a body: the length byte, the body, the end byte 0
BodyLine(body) == <<Len(body) + 1>> \o body \o <<0>>

InitIdent ==
    /\ CONFIG = profiles[DEFAULT_PROFILE]
    /\ sp = SignalProc_init
    /\ bp = BitProc_init
    /\ dp = DataProc_init
    /\ calls = <<>>
    /\ last = NoCall
    /\ exc = ""
    /\ eof = FALSE
    /\ enc = None
    /\ wav = <<>>
    /\ \E body \in Bodies :
          /\ chan = body
          /\ lister = lister_start(GoodImage(<<BodyLine(body)>>))

SpecIdent == InitIdent /\ [][NextList]_vars

(***************************************************************************)
(* Claim on the characters of identifiers (SpecIdent)                      *)
(***************************************************************************)
\* the identifier characters of the claim: A-Z, a-z, 0-9, @, _, [, ], \, $
ClaimedIdentChar(c) ==
    \/ c >= 65 /\ c <= 90
    \/ c >= 97 /\ c <= 122
    \/ c >= 48 /\ c <= 57
    \/ c \in { 64, 95, 91, 93, 92, 36 }

\* the text of bytes i .. of a body as the claim has it, inside telling
\* whether byte i - 1 is within an identifier: an identifier character
\* starts or continues an identifier, an identifier ends (with a space) just
\* after a $ and before a byte that is no identifier character
RECURSIVE ClaimedText(_, _, _)
ClaimedText(body, i, inside) ==
    IF i > Len(body) THEN (IF inside THEN <<32>> ELSE <<>>)
    ELSE IF ClaimedIdentChar(body[i])
    THEN IF body[i] = 36
         THEN <<36, 32>> \o ClaimedText(body, i + 1, FALSE)
         ELSE <<body[i]>> \o ClaimedText(body, i + 1, TRUE)
    ELSE (IF inside THEN <<32>> ELSE <<>>)
           \o token_text(body[i]) \o ClaimedText(body, i + 1, FALSE)

\* the lister is through with the line of the image
LineHandled == lister.pc \in {"done", "raised", "exit"}

\* C37: every byte of A-Z, a-z, 0-9, @, _, [, ], \ and $ is an identifier
\* character: where a token is expected it starts an identifier and raises no
\* error, and the identifier goes on over the bytes of that set that follow,
\* up to a byte outside the set or just after a $; so the line is listed with
\* its identifiers whole, each followed by a space.
\* (Stated as the claim has it; the code does not do this.)
C37_IdentifierChars ==
    LineHandled
      => /\ lister.pc = "done"
         /\ lister.raised = ""
         /\ lister.out
              = << Format5(10) \o <<32>> \o ClaimedText(chan, 1, FALSE) >>

\* C37, the case: the line A[ has been listed as two identifiers, 'A [ '
C37_BracketEndsIdentifier ==
    /\ chan = <<65, 91>>
    /\ lister.pc = "done"
    /\ lister.out = << Format5(10) \o <<32, 65, 32, 91, 32>> >>

============================================================================
